---- MODULE Spec2Model ----
(***************************************************************************)
(* Live Recipe AI: the AI client (src/ai.js), the speech facade            *)
(* (src/unnamed/part_000), the camera facade and the session orchestrator  *)
(* (src/camera.js) as state machines.  Every await of the JavaScript code  *)
(* is a point where another event handler can run, so an async function    *)
(* is one action per stretch of code between two awaits.                   *)
(***************************************************************************)
EXTENDS Integers, Sequences, FiniteSets, TLC

\* ------------------------------------------------------------- bounds
\* Largest CONFIG.MAX_RETRIES tried (0 stands for an absent or zero entry).
MaxConfigRetries == 3
\* Number of AI requests one behaviour issues.
MaxRequests == 2
\* Longest response text, in lines.
MaxLines == 3
\* Number of texts handed to the speech facade in one behaviour.
MaxUtterances == 4
\* Number of clock advances in one behaviour.
MaxTicks == 3
\* Number of captureFrame calls in one behaviour.
MaxCaptures == 3
\* Number of startCamera calls in one behaviour.
MaxStarts == 2
\* Number of messages spoken or typed and of buttons clicked in one behaviour.
MaxUserEvents == 2
\* Number of clicks on the AI-speech button in one behaviour.
MaxSpeechToggles == 1
\* Number of visibilitychange events of the page in one behaviour.
MaxVisibilityChanges == 1
\* Number of clicks on the microphone button in one behaviour.
MaxMicToggles == 1
\* Number of presses of the voice button in one behaviour.
MaxPresses == 2

\* ---------------------------------------------------- program constants
DefaultMaxRetries == 3
BackoffUnitMs == 1000
CooldownMs == 6000

\* ======================================================================
\* AI client (class AIManager)
\* ======================================================================
VARIABLES
    cfgMaxRetries,   \* CONFIG.MAX_RETRIES as configured (0: absent)
    apiKey,          \* this.apiKey is set
    isInitialized,   \* this.isInitialized
    maxRetries,      \* this.maxRetries
    aiStatus,        \* text of the ai-status element
    aiPhase,         \* position of the request chain: idle, fetch, errbody,
                     \* body, delay, returned, failed
    aiCaller,        \* who awaits the chain: generate or extract
    retryCount,      \* retryCount parameter of the running callGeminiAPI
    timerArmed,      \* the attempt's setTimeout(abort) is pending
    attemptError,    \* the HTTP error an errbody attempt is about to throw;
                     \* once the request failed, the error its last attempt
                     \* threw
    lastBody,        \* the shape of the response body the running attempt
                     \* has read ("none": not read)
    attempts,        \* fetches issued for the request (history)
    delays,          \* the delays waited for the request, in order (history)
    aiText,          \* the text the chain returned
    aiError,         \* the error the chain threw
    requestsIssued,  \* generateResponse calls so far (history)
    strictTried,     \* extractRecipe ran JSON.parse (history)
    heuristicTried,  \* extractRecipe ran parseRecipeFallback (history)
    recipeOut        \* what extractRecipe returned

aiVars == <<cfgMaxRetries, apiKey, isInitialized, maxRetries, aiStatus, aiPhase,
            aiCaller, retryCount, timerArmed, attemptError, lastBody, attempts,
            delays,
            aiText, aiError, requestsIssued, strictTried, heuristicTried,
            recipeOut>>

\* ======================================================================
\* Speech facade (class SpeechManager) and the platform synthesizer
\* ======================================================================
VARIABLES
    aiSpeechEnabled, \* AppState.preferences.aiSpeechEnabled
    speech           \* the SpeechManager's fields and window.speechSynthesis:
                     \*   isSpeaking, currentUtterance, utteranceQueue;
                     \*   pending: utterances given to synthesis.speak and not
                     \*     finished, oldest first; playing: the oldest one
                     \*     has started; cancelled: utterances removed by
                     \*     synthesis.cancel(); handed, spoken: history

speechVars == <<aiSpeechEnabled, speech>>

\* ======================================================================
\* Camera facade (class CameraManager), the clock and the conversation
\* ======================================================================
VARIABLES
    now,             \* Date.now()
    camera,          \* the CameraManager's fields and the video element:
                     \*   isActive, stream (0: null), captureCount,
                     \*   lastCaptureTime; srcObject (0: null), videoReady
                     \*   (videoWidth and videoHeight are not 0); live: the
                     \*   streams acquired and not stopped; starting: the
                     \*   startCamera calls in flight, each waiting for the
                     \*   permission ("perm") or the metadata ("meta");
                     \*   handler: the call onloadedmetadata resolves;
                     \*   result: what the last captureFrame returned;
                     \*   calls, starts, ticks: history
    conversation     \* AppState.conversation: entries [role, text]

cameraVars == <<now, camera>>

\* ======================================================================
\* Session orchestrator (class LiveRecipeAI) and AppState
\* ======================================================================
VARIABLES
    app,             \* AppState: isCooking, isPaused, waitingForConfirmation,
                     \*   currentStep, recipe, preferences.cameraEnabled
    orch             \* the orchestrator's handlers in flight and history:
                     \*   inflight: the processUserMessage calls awaiting
                     \*     generateAIResponse; toggles: the startCamera calls
                     \*     toggleCamera awaits; cookStarts: the startCooking
                     \*     calls and what each awaits; requested: messages
                     \*     sent to the AI client; msgs, clicks: events so
                     \*     far; completions: completeCurrentStep calls so
                     \*     far; speechToggles: AI-speech clicks so far;
                     \*     failed: the messages whose AI request failed;
                     \*     alerts: alert() dialogs shown so far;
                     \*     hidden: document.hidden; visibilityChanges:
                     \*     visibilitychange events so far; micToggles:
                     \*     microphone-button clicks so far

sessionVars == <<app, orch>>

vars == <<aiVars, speechVars, cameraVars, conversation, sessionVars>>

\* what the handlers of one component leave alone
nonAI == <<speechVars, cameraVars, conversation, sessionVars>>
nonSpeech == <<aiVars, cameraVars, conversation, sessionVars>>
nonCamera == <<aiVars, speechVars, sessionVars>>

\* ---- errors an attempt can throw: name and what the message contains
Err(name, hasApiKey, has429) ==
    [name |-> name, hasApiKey |-> hasApiKey, has429 |-> has429]

NoError == Err("none", FALSE, FALSE)
AbortError == Err("AbortError", FALSE, FALSE)
NetworkError == Err("TypeError", FALSE, FALSE)
SyntaxError == Err("SyntaxError", FALSE, FALSE)
PropertyTypeError == Err("TypeError", FALSE, FALSE)
InvalidFormatError == Err("InvalidResponseFormat", FALSE, FALSE)
NotInitializedError == Err("NotInitialized", FALSE, FALSE)

\* `API Error ${status}: ${JSON.stringify(errorData)}`
HttpErrors == {Err("ApiError", k, r) : k \in BOOLEAN, r \in BOOLEAN}

\* ---- response texts: a text is a sequence of non-blank lines
LineKinds == {"open", "close", "stepsMember",
              "ingHeader", "stepHeader", "timeLine", "item"}

\* what the line reads
LineText(k) ==
    CASE k = "open" -> "{"
      [] k = "close" -> "}"
      [] k = "stepsMember" -> "\"steps\": [\"Boil\"]"
      [] k = "ingHeader" -> "Ingredients:"
      [] k = "stepHeader" -> "Steps:"
      [] k = "timeLine" -> "Time: 20 minutes"
      [] k = "item" -> "Boil the rice"

HasIngredient(k) == k = "ingHeader"
HasStepWord(k) == k \in {"stepHeader", "stepsMember"}
HasTimeWord(k) == k = "timeLine"

Texts == UNION {[1..n -> LineKinds] : n \in 0..MaxLines}

\* shapes of a 200 response body
\* text: candidates[0].content.parts[0].text is there; noCandidates,
\* noContent: no first candidate, or it has no content; noParts: the content
\* has no parts array; noText: the parts are empty or the first has no text;
\* badJson: the body is not JSON
BodyShapes == {"text", "noCandidates", "noContent", "noParts", "noText",
               "badJson"}

\* a recipe: where it came from, its name, how many ingredients and steps
Recipe(source, name, ingredients, steps, estimatedTime) ==
    [source |-> source, name |-> name, ingredients |-> ingredients,
     steps |-> steps, estimatedTime |-> estimatedTime]

NoRecipe == Recipe("none", "", 0, 0, "")

\* ---- init(): src/ai.js 17-35
AIConstructed(key, configured) ==
    /\ apiKey = key
    /\ cfgMaxRetries = configured
    /\ isInitialized = apiKey
    /\ maxRetries = IF apiKey /\ cfgMaxRetries # 0 THEN cfgMaxRetries
                    ELSE DefaultMaxRetries
    /\ aiStatus = IF apiKey THEN "Connected" ELSE "No API Key"
    /\ aiPhase = "idle"
    /\ aiCaller = "none"
    /\ retryCount = 0
    /\ timerArmed = FALSE
    /\ attemptError = NoError
    /\ lastBody = "none"
    /\ attempts = 0
    /\ delays = <<>>
    /\ aiText = <<>>
    /\ aiError = NoError
    /\ requestsIssued = 0
    /\ strictTried = FALSE
    /\ heuristicTried = FALSE
    /\ recipeOut = NoRecipe

\* the configurations tried: with a key and any MAX_RETRIES, or without a key
AIInit ==
    \E key \in BOOLEAN :
        \E configured \in (IF key THEN 0..MaxConfigRetries ELSE {0}) :
            AIConstructed(key, configured)

\* ---- getDefaultRecipe
DefaultIngredients == 8
DefaultSteps == 7

GetDefaultRecipe ==
    Recipe("default", "Vegetable Pulao", DefaultIngredients, DefaultSteps, "30")

\* ---- parseRecipeFallback: one pass over the lines
RECURSIVE FallbackLoop(_, _, _, _)
FallbackLoop(lines, i, recipe, currentSection) ==
    IF i > Len(lines) THEN recipe
    ELSE LET k == lines[i] IN
         IF HasIngredient(k) THEN FallbackLoop(lines, i + 1, recipe, "ingredients")
         ELSE IF HasStepWord(k) THEN FallbackLoop(lines, i + 1, recipe, "steps")
         ELSE IF HasTimeWord(k) THEN
             FallbackLoop(lines, i + 1, [recipe EXCEPT !.estimatedTime = "20"],
                          currentSection)
         ELSE IF currentSection = "ingredients" THEN
             FallbackLoop(lines, i + 1,
                          [recipe EXCEPT !.ingredients = @ + 1], currentSection)
         ELSE IF currentSection = "steps" THEN
             FallbackLoop(lines, i + 1, [recipe EXCEPT !.steps = @ + 1],
                          currentSection)
         ELSE IF recipe.name = "Custom Dish" THEN
             FallbackLoop(lines, i + 1, [recipe EXCEPT !.name = LineText(k)],
                          currentSection)
         ELSE FallbackLoop(lines, i + 1, recipe, currentSection)

ParseRecipeFallback(text) ==
    FallbackLoop(text, 1,
                 Recipe("heuristic", "Custom Dish", 0, 0, "30"), "")

\* ---- response.match(/\{[\s\S]*\}/): first "{" through last "}"
FirstOpen(text) ==
    IF \E i \in 1..Len(text) : text[i] = "open"
    THEN CHOOSE i \in 1..Len(text) :
            text[i] = "open" /\ \A j \in 1..(i - 1) : text[j] # "open"
    ELSE 0

LastCloseAfter(text, from) ==
    IF \E i \in (from + 1)..Len(text) : text[i] = "close"
    THEN CHOOSE i \in (from + 1)..Len(text) :
            text[i] = "close" /\ \A j \in (i + 1)..Len(text) : text[j] # "close"
    ELSE 0

JsonMatch(text) ==
    LET o == FirstOpen(text)
        c == IF o = 0 THEN 0 ELSE LastCloseAfter(text, o)
    IN IF o = 0 \/ c = 0 THEN <<>> ELSE SubSeq(text, o, c)

\* ---- JSON.parse of the matched block: an object is "{" members "}"
IsValidJson(block) ==
    /\ Len(block) >= 2
    /\ block[1] = "open"
    /\ block[Len(block)] = "close"
    /\ \A i \in 2..(Len(block) - 1) : block[i] = "stepsMember"

\* the parsed object: a missing member is an absent field (no name, no steps)
JsonParse(block) ==
    Recipe("json", "", 0,
           IF \E i \in 1..Len(block) : block[i] = "stepsMember" THEN 1 ELSE 0,
           "")

\* ---- extractRecipe after generateResponse settled (src/ai.js 235-251):
\* what was tried and what is returned
ExtractOutcomeRethrows(ok, text) ==
    IF ~ok THEN [strict |-> FALSE, heuristic |-> FALSE, recipe |-> NoRecipe]
    ELSE LET jsonMatch == JsonMatch(text) IN
         IF jsonMatch # <<>> THEN
             IF IsValidJson(jsonMatch)
             THEN [strict |-> TRUE, heuristic |-> FALSE,
                   recipe |-> JsonParse(jsonMatch)]
             ELSE [strict |-> TRUE, heuristic |-> FALSE, recipe |-> NoRecipe]
         ELSE [strict |-> FALSE, heuristic |-> TRUE,
               recipe |-> ParseRecipeFallback(text)]

ExtractOutcome(ok, text) ==
    IF ~ok THEN [strict |-> FALSE, heuristic |-> FALSE, recipe |-> GetDefaultRecipe]
    ELSE LET jsonMatch == JsonMatch(text) IN
         IF jsonMatch # <<>> THEN
             IF IsValidJson(jsonMatch)
             THEN [strict |-> TRUE, heuristic |-> FALSE,
                   recipe |-> JsonParse(jsonMatch)]
             \* JSON.parse throws: the catch returns the default recipe
             ELSE [strict |-> TRUE, heuristic |-> FALSE,
                   recipe |-> GetDefaultRecipe]
         ELSE [strict |-> FALSE, heuristic |-> TRUE,
               recipe |-> ParseRecipeFallback(text)]

\* ---- the retry decision and the backoff (src/ai.js 175-177)
ShouldRetryOffByOne(rc) == rc <= maxRetries
ShouldRetry(rc) == rc < maxRetries

RetryDelayFlat(rc) == BackoffUnitMs
RetryDelay(rc) == BackoffUnitMs * (rc + 1)

\* ---- the error surfaced once retries are exhausted (src/ai.js 181-194)
MapErrorRateLimitFirst(error) ==
    IF error.name = "AbortError" THEN Err("Timeout", FALSE, FALSE)
    ELSE IF error.has429 THEN Err("RateLimited", FALSE, TRUE)
    ELSE IF error.hasApiKey THEN Err("InvalidApiKey", TRUE, error.has429)
    ELSE error

MapError(error) ==
    IF error.name = "AbortError" THEN Err("Timeout", FALSE, FALSE)
    ELSE IF error.hasApiKey THEN Err("InvalidApiKey", TRUE, error.has429)
    ELSE IF error.has429 THEN Err("RateLimited", FALSE, TRUE)
    ELSE error

\* ---- the chain settles: generateResponse's status update (src/ai.js 53-61)
\* and, for extractRecipe, its continuation
\* a successful attempt retried like a failed one
SettleRetriesSuccess(ok, text, error) ==
    /\ aiPhase' = IF ~ok THEN "failed"
                  ELSE IF ShouldRetry(retryCount) THEN "delay" ELSE "returned"
    /\ aiText' = text
    /\ aiError' = error
    /\ aiStatus' = IF ok THEN "Connected" ELSE "Error"
    /\ timerArmed' = FALSE
    /\ IF aiCaller = "extract"
       THEN LET out == ExtractOutcome(ok, text) IN
            /\ strictTried' = out.strict
            /\ heuristicTried' = out.heuristic
            /\ recipeOut' = out.recipe
       ELSE UNCHANGED <<strictTried, heuristicTried, recipeOut>>

\* a failed chain of extractRecipe started over by extractRecipe itself
SettleExtractAgain(ok, text, error) ==
    /\ aiPhase' = IF ok THEN "returned"
                  ELSE IF aiCaller = "extract" THEN "fetch" ELSE "failed"
    /\ aiText' = text
    /\ aiError' = error
    /\ aiStatus' = IF ok THEN "Connected" ELSE "Error"
    /\ timerArmed' = FALSE
    /\ IF aiCaller = "extract"
       THEN LET out == ExtractOutcome(ok, text) IN
            /\ strictTried' = out.strict
            /\ heuristicTried' = out.heuristic
            /\ recipeOut' = out.recipe
       ELSE UNCHANGED <<strictTried, heuristicTried, recipeOut>>

Settle(ok, text, error) ==
    /\ aiPhase' = IF ok THEN "returned" ELSE "failed"
    /\ aiText' = text
    /\ aiError' = error
    /\ aiStatus' = IF ok THEN "Connected" ELSE "Error"
    /\ timerArmed' = FALSE
    /\ IF aiCaller = "extract"
       THEN LET out == ExtractOutcome(ok, text) IN
            /\ strictTried' = out.strict
            /\ heuristicTried' = out.heuristic
            /\ recipeOut' = out.recipe
       ELSE UNCHANGED <<strictTried, heuristicTried, recipeOut>>

\* ---- the catch block of callGeminiAPI (src/ai.js 173-195)
Catch(error) ==
    IF ShouldRetry(retryCount)
    THEN /\ aiPhase' = "delay"
         /\ delays' = Append(delays, RetryDelay(retryCount))
         /\ timerArmed' = FALSE
         /\ attemptError' = NoError
         /\ UNCHANGED <<aiText, aiError, aiStatus, strictTried, heuristicTried,
                        recipeOut>>
    ELSE /\ Settle(FALSE, <<>>, MapError(error))
         /\ attemptError' = error
         /\ UNCHANGED delays

aiConfig == <<cfgMaxRetries, apiKey, isInitialized, maxRetries>>

\* generateResponse without its test of isInitialized and apiKey
GenerateResponseUnchecked(caller) ==
    /\ UNCHANGED nonAI
    /\ aiPhase \in {"idle", "returned", "failed"}
    /\ requestsIssued < MaxRequests
    /\ requestsIssued' = requestsIssued + 1
    /\ aiCaller' = caller
    /\ aiStatus' = "Thinking..."
    /\ aiPhase' = "fetch"
    /\ retryCount' = 0
    /\ timerArmed' = TRUE
    /\ attempts' = 1
    /\ delays' = <<>>
    /\ aiText' = <<>>
    /\ aiError' = NoError
    /\ strictTried' = FALSE
    /\ heuristicTried' = FALSE
    /\ recipeOut' = NoRecipe
    /\ attemptError' = NoError
    /\ lastBody' = "none"
    /\ UNCHANGED aiConfig

\* ---- generateResponse / extractRecipe called (src/ai.js 38-51, 221-236)
GenerateResponse(caller) ==
    /\ UNCHANGED nonAI
    /\ aiPhase \in {"idle", "returned", "failed"}
    /\ requestsIssued < MaxRequests
    /\ requestsIssued' = requestsIssued + 1
    /\ aiCaller' = caller
    /\ IF ~isInitialized \/ ~apiKey
       THEN /\ aiPhase' = "failed"
            /\ aiError' = NotInitializedError
            /\ aiText' = <<>>
            /\ attempts' = 0
            /\ delays' = <<>>
            /\ retryCount' = 0
            /\ strictTried' = FALSE
            /\ heuristicTried' = FALSE
            /\ recipeOut' = IF caller = "extract" THEN GetDefaultRecipe ELSE NoRecipe
            /\ UNCHANGED <<aiStatus, timerArmed, attemptError>>
       ELSE /\ aiStatus' = "Thinking..."
            /\ aiPhase' = "fetch"
            /\ retryCount' = 0
            /\ timerArmed' = TRUE
            /\ attempts' = 1
            /\ delays' = <<>>
            /\ aiText' = <<>>
            /\ aiError' = NoError
            /\ strictTried' = FALSE
            /\ heuristicTried' = FALSE
            /\ recipeOut' = NoRecipe
            /\ attemptError' = NoError
    /\ lastBody' = "none"
    /\ UNCHANGED aiConfig

\* ---- fetch resolves with a 2xx response: clearTimeout, then the body is read
FetchResolves ==
    /\ UNCHANGED nonAI
    /\ aiPhase = "fetch"
    /\ aiPhase' = "body"
    /\ timerArmed' = FALSE
    /\ UNCHANGED <<aiConfig, aiStatus, aiCaller, retryCount, attemptError, attempts,
                   delays, aiText, aiError, requestsIssued, strictTried,
                   heuristicTried, recipeOut, lastBody>>

\* ---- fetch resolves with !response.ok: clearTimeout, then the error body is read
FetchHttpError(error) ==
    /\ UNCHANGED nonAI
    /\ aiPhase = "fetch"
    /\ aiPhase' = "errbody"
    /\ timerArmed' = FALSE
    /\ attemptError' = error
    /\ UNCHANGED <<aiConfig, aiStatus, aiCaller, retryCount, attempts,
                   delays, aiText, aiError, requestsIssued, strictTried,
                   heuristicTried, recipeOut, lastBody>>

\* ---- the error body was read (or could not be): throw new Error(`API Error ...`)
ErrorBodyRead ==
    /\ UNCHANGED nonAI
    /\ aiPhase = "errbody"
    /\ Catch(attemptError)
    /\ UNCHANGED <<aiConfig, aiCaller, retryCount, attempts, requestsIssued,
                   lastBody>>

\* ---- fetch rejects (network failure)
FetchRejects ==
    /\ UNCHANGED nonAI
    /\ aiPhase = "fetch"
    /\ Catch(NetworkError)
    /\ UNCHANGED <<aiConfig, aiCaller, retryCount, attempts, requestsIssued,
                   lastBody>>

\* ---- the timeout fires: controller.abort() makes fetch reject with AbortError
TimeoutFires ==
    /\ UNCHANGED nonAI
    /\ aiPhase = "fetch"
    /\ timerArmed
    /\ Catch(AbortError)
    /\ UNCHANGED <<aiConfig, aiCaller, retryCount, attempts, requestsIssued,
                   lastBody>>

\* ---- response.json() settles and the text is extracted (src/ai.js 163-171)
BodyResolves(shape, text) ==
    /\ UNCHANGED nonAI
    /\ aiPhase = "body"
    /\ lastBody' = shape
    /\ CASE shape = "text" ->
              Settle(TRUE, text, NoError) /\ UNCHANGED <<delays, attemptError>>
         \* parts[0]?.text || '': the empty string is returned
         [] shape = "noText" ->
              Settle(TRUE, <<>>, NoError) /\ UNCHANGED <<delays, attemptError>>
         \* content.parts[0] of an undefined parts: a TypeError is thrown
         [] shape = "noParts" -> Catch(PropertyTypeError)
         [] shape = "badJson" -> Catch(SyntaxError)
         [] OTHER -> Catch(InvalidFormatError)
    /\ UNCHANGED <<aiConfig, aiCaller, retryCount, attempts, requestsIssued>>

\* ---- the backoff delay is over: callGeminiAPI(messages, retryCount + 1)
DelayElapses ==
    /\ UNCHANGED nonAI
    /\ aiPhase = "delay"
    /\ aiPhase' = "fetch"
    /\ retryCount' = retryCount + 1
    /\ attempts' = attempts + 1
    /\ timerArmed' = TRUE
    /\ lastBody' = "none"
    /\ UNCHANGED <<aiConfig, aiStatus, aiCaller, attemptError, delays, aiText,
                   aiError, requestsIssued, strictTried, heuristicTried, recipeOut>>

\* ======================================================================
\* Speech facade: speak, queueSpeech, stopSpeaking and the utterance events
\* ======================================================================
\* a text to speak: the phrase and the step or count it names
SpeechTexts == {<<"Agla step", 1>>, <<"Theek hai", 0>>}

\* a text on its way to the synthesizer; tag numbers the texts in the order
\* in which they were handed over (history, not read by the code)
Utterance(text, tag) == [text |-> text, tag |-> tag]
NoUtterance == Utterance(<<"", 0>>, 0)

SpeechInit ==
    /\ aiSpeechEnabled = TRUE
    /\ speech = [isSpeaking |-> FALSE, currentUtterance |-> NoUtterance,
                 utteranceQueue |-> <<>>, pending |-> <<>>, playing |-> FALSE,
                 cancelled |-> {}, handed |-> 0, spoken |-> <<>>,
                 call |-> [n |-> 0, text |-> <<"", 0>>],
                 isListening |-> FALSE, recognition |-> "idle",
                 sessions |-> 0,
                 listenCall |-> [n |-> 0, result |-> FALSE],
                 stopAsked |-> 0]

\* ---- stopSpeaking (part_000 213-221)
StopSpeaking(s) ==
    IF s.isSpeaking
    THEN [s EXCEPT !.cancelled = @ \cup {s.pending[i] : i \in 1..Len(s.pending)},
                   !.pending = <<>>,
                   !.playing = FALSE,
                   !.isSpeaking = FALSE,
                   !.currentUtterance = NoUtterance,
                   !.utteranceQueue = <<>>]
    ELSE s

\* ---- speak (part_000 140-201); enabled: aiSpeechEnabled at the call
Submit(s, u) == [StopSpeaking(s) EXCEPT !.pending = Append(@, u)]

\* speak without the check for the text already being spoken
SpeakAgain(s, u, enabled) ==
    IF ~enabled THEN s
    ELSE Submit(s, u)

Speak(s, u, enabled) ==
    IF ~enabled THEN s
    ELSE IF s.isSpeaking /\ s.currentUtterance.text = u.text THEN s
    ELSE Submit(s, u)

\* ---- queueSpeech (part_000 204-210)
QueueSpeech(s, u, enabled) ==
    IF s.isSpeaking
    THEN [s EXCEPT !.utteranceQueue = Append(@, u)]
    ELSE Speak(s, u, enabled)

\* ---- utterance.onstart (part_000 164-168)
OnStart(s, u) == [s EXCEPT !.isSpeaking = TRUE, !.currentUtterance = u]

\* ---- utterance.onend and utterance.onerror (part_000 170-197)
OnEnd(s, enabled) ==
    LET s1 == [s EXCEPT !.isSpeaking = FALSE, !.currentUtterance = NoUtterance]
    IN IF Len(s1.utteranceQueue) > 0
       THEN Speak([s1 EXCEPT !.utteranceQueue = Tail(@)],
                  Head(s1.utteranceQueue), enabled)
       ELSE s1

\* ---- a caller hands a text to queueSpeech
CallQueueSpeech(text) ==
    /\ UNCHANGED nonSpeech
    /\ speech.handed < MaxUtterances
    /\ LET u == Utterance(text, speech.handed + 1)
       IN speech' = QueueSpeech([speech EXCEPT !.handed = @ + 1], u,
                                aiSpeechEnabled)
    /\ UNCHANGED aiSpeechEnabled

\* ---- a caller hands a text to speak: window.speakText (part_000 319);
\* call numbers the speak calls and keeps the text of the last one (history)
CallSpeak(text) ==
    /\ UNCHANGED nonSpeech
    /\ speech.handed < MaxUtterances
    /\ LET u == Utterance(text, speech.handed + 1)
           s == [speech EXCEPT !.handed = @ + 1,
                               !.call = [n |-> @.n + 1, text |-> text]]
       IN speech' = Speak(s, u, aiSpeechEnabled)
    /\ UNCHANGED aiSpeechEnabled

\* ---- the synthesizer starts the oldest pending utterance: its start event
SynthStart ==
    /\ UNCHANGED nonSpeech
    /\ Len(speech.pending) > 0
    /\ ~speech.playing
    /\ LET u == Head(speech.pending)
       IN speech' = OnStart([speech EXCEPT !.playing = TRUE,
                                           !.spoken = Append(@, u.tag)], u)
    /\ UNCHANGED aiSpeechEnabled

\* ---- the playing utterance finishes: its end event
SynthEnd ==
    /\ UNCHANGED nonSpeech
    /\ Len(speech.pending) > 0
    /\ speech.playing
    /\ speech' = OnEnd([speech EXCEPT !.pending = Tail(@), !.playing = FALSE],
                       aiSpeechEnabled)
    /\ UNCHANGED aiSpeechEnabled

\* ---- the oldest pending utterance fails, started or not: its error event
SynthError ==
    /\ UNCHANGED nonSpeech
    /\ Len(speech.pending) > 0
    /\ speech' = OnEnd([speech EXCEPT !.pending = Tail(@), !.playing = FALSE],
                       aiSpeechEnabled)
    /\ UNCHANGED aiSpeechEnabled

\* ---- speech recognition. recognition is the recognizer's own state:
\* "idle", "starting" (start() accepted, start event not yet delivered),
\* "listening", "stopping" (stop() accepted, end event not yet delivered);
\* sessions counts the recognitions started and listenCall numbers the
\* startListening calls and keeps the last return value (history). The
\* browser has a recognizer (this.recognition is set).

\* ---- stopListening (part_000 133-137); stop() on a recognizer that is
\* already stopping does nothing
\* stopAsked is the last recognition a stopListening call was made for
StopListening(s) ==
    LET s1 == [s EXCEPT !.stopAsked = s.sessions]
    IN IF s1.isListening /\ s1.recognition = "listening"
       THEN [s1 EXCEPT !.recognition = "stopping"]
       ELSE s1

\* ---- startListening (part_000 112-130); start() throws InvalidStateError
\* on a recognizer that is started and has not ended, which the catch turns
\* into the return value false
StartListening(s) ==
    LET s1 == [s EXCEPT !.listenCall.n = @ + 1]
    IN IF s1.isListening
       THEN [StopListening(s1) EXCEPT !.listenCall.result = FALSE]
       ELSE IF s1.recognition = "idle"
            THEN [s1 EXCEPT !.recognition = "starting",
                            !.sessions = @ + 1,
                            !.listenCall.result = TRUE]
            ELSE [s1 EXCEPT !.listenCall.result = FALSE]

\* ---- startVoiceInput (camera.js 654-667): the voice button is pressed
PressVoiceButton ==
    /\ UNCHANGED nonSpeech
    /\ speech.listenCall.n < MaxPresses
    /\ speech' = StartListening(speech)
    /\ UNCHANGED aiSpeechEnabled

\* ---- stopVoiceInput (camera.js 670-684): the voice button is released,
\* or the 10 s hold timer fires
ReleaseVoiceButton ==
    /\ UNCHANGED nonSpeech
    /\ speech' = StopListening(speech)
    /\ UNCHANGED aiSpeechEnabled

\* ---- recognition.onstart (part_000 43-49)
RecognitionStarts ==
    /\ UNCHANGED nonSpeech
    /\ speech.recognition = "starting"
    /\ speech' = [speech EXCEPT !.recognition = "listening",
                                !.isListening = TRUE]
    /\ UNCHANGED aiSpeechEnabled

\* ---- recognition.onend (part_000 73-79): the recognition is over, by
\* itself (continuous is false) or after stop()
RecognitionEnds ==
    /\ UNCHANGED nonSpeech
    /\ speech.recognition \in {"listening", "stopping"}
    /\ speech' = [speech EXCEPT !.recognition = "idle",
                                !.isListening = FALSE]
    /\ UNCHANGED aiSpeechEnabled

\* ---- recognition.onerror followed by recognition.onend (part_000 63-79):
\* the recognition fails, started or not; the two events are delivered back
\* to back
RecognitionFails ==
    /\ UNCHANGED nonSpeech
    /\ speech.recognition \in {"starting", "listening"}
    /\ speech' = [speech EXCEPT !.recognition = "idle",
                                !.isListening = FALSE]
    /\ UNCHANGED aiSpeechEnabled


\* ======================================================================
\* Camera facade: startCamera, stopCamera, captureFrame
\* ======================================================================
\* the page is loaded long after the epoch
PageLoadTime == 10 * CooldownMs
TickSteps == {1, CooldownMs - 1}

Entry(role, text, req) == [role |-> role, text |-> text, req |-> req]

CameraInit ==
    /\ now = PageLoadTime
    /\ camera = [isActive |-> FALSE, stream |-> 0, captureCount |-> 0,
                 lastCaptureTime |-> 0, srcObject |-> 0, videoReady |-> FALSE,
                 live |-> {}, starting |-> <<>>, handler |-> 0,
                 result |-> "none", calls |-> 0, starts |-> 0, ticks |-> 0,
                 stopDuring |-> {}, captureTimes |-> <<>>,
                 toggling |-> {}]
    /\ conversation = <<>>

\* ---- the rate limit of captureFrame (camera.js 142-146)
TooSoonInclusive(t, last) == t - last <= CooldownMs
TooSoon(t, last) == t - last < CooldownMs

\* ---- captureFrame (camera.js 135-187): the fields after the call; said is
\* the message handed to showError, which goes into the conversation;
\* captureTimes keeps the times of the successful captures (history)
\* captureFrame stamping the time of a call rejected by the rate limit
CaptureFrameStampsRejected(c, t) ==
    IF ~c.isActive
    THEN [camera |-> [c EXCEPT !.result = "null"], said |-> "Camera not active"]
    ELSE IF TooSoon(t, c.lastCaptureTime)
    THEN [camera |-> [c EXCEPT !.result = "null", !.lastCaptureTime = t],
          said |-> ""]
    ELSE IF ~c.videoReady
    THEN [camera |-> [c EXCEPT !.result = "null"], said |-> "Video not ready yet"]
    ELSE [camera |-> [c EXCEPT !.result = "frame",
                               !.captureCount = @ + 1,
                               !.lastCaptureTime = t,
                               !.captureTimes = Append(@, t)],
          said |-> ""]

CaptureFrame(c, t) ==
    IF ~c.isActive
    THEN [camera |-> [c EXCEPT !.result = "null"], said |-> "Camera not active"]
    ELSE IF TooSoon(t, c.lastCaptureTime)
    THEN [camera |-> [c EXCEPT !.result = "null"], said |-> ""]
    ELSE IF ~c.videoReady
    THEN [camera |-> [c EXCEPT !.result = "null"], said |-> "Video not ready yet"]
    ELSE [camera |-> [c EXCEPT !.result = "frame",
                               !.captureCount = @ + 1,
                               !.lastCaptureTime = t,
                               !.captureTimes = Append(@, t)],
          said |-> ""]

\* ---- CameraManager.showError (camera.js 306-316)
CameraShowError(conv, said) ==
    IF said = "" THEN conv ELSE Append(conv, Entry("system", said, 0))

\* ---- stopCamera (camera.js 99-118); stopDuring keeps the startCamera
\* calls that were waiting for the permission or the metadata when a
\* stopCamera ran (history)
StopCamera(c) ==
    [c EXCEPT !.stopDuring = @ \cup {i \in 1..Len(c.starting) :
                                        c.starting[i] \in {"perm", "meta"}},
              !.live = @ \ {c.stream},
              !.stream = 0,
              !.srcObject = 0,
              !.videoReady = FALSE,
              !.isActive = FALSE]

\* ---- time passes
Tick(d) ==
    /\ camera.ticks < MaxTicks
    /\ now' = now + d
    /\ camera' = [camera EXCEPT !.ticks = @ + 1]
    /\ UNCHANGED <<nonCamera, conversation>>

\* ---- captureFrame is called (capture button, processUserMessage)
CallCaptureFrame ==
    /\ camera.calls < MaxCaptures
    /\ LET r == CaptureFrame([camera EXCEPT !.calls = @ + 1], now)
       IN /\ camera' = r.camera
          /\ conversation' = CameraShowError(conversation, r.said)
    /\ UNCHANGED <<nonCamera, now>>

\* ---- startCamera up to its first await (camera.js 56-68)
CallStartCamera ==
    /\ camera.starts < MaxStarts
    /\ camera' = IF camera.isActive
                 THEN [camera EXCEPT !.starts = @ + 1]
                 ELSE [camera EXCEPT !.starts = @ + 1,
                                     !.starting = Append(@, "perm")]
    /\ UNCHANGED <<nonCamera, now, conversation>>

\* ---- getUserMedia resolves for call i: the stream becomes the video source
\* and the call waits for the metadata (camera.js 68-79)
PermissionGranted(i) ==
    /\ i \in 1..Len(camera.starting)
    /\ camera.starting[i] = "perm"
    /\ camera' = [camera EXCEPT !.stream = i,
                                   !.live = @ \cup {i},
                                   !.srcObject = i,
                                !.videoReady = FALSE,
                                !.handler = i,
                                !.starting[i] = "meta"]
    /\ UNCHANGED <<nonCamera, now, conversation>>

\* ---- getUserMedia rejects for call i: handleCameraError (camera.js 91-95)
PermissionDenied(i) ==
    /\ i \in 1..Len(camera.starting)
    /\ camera.starting[i] = "perm"
    /\ camera' = [camera EXCEPT !.starting[i] = "failed"]
    /\ conversation' = Append(conversation,
                              Entry("system", "Camera error", 0))
    /\ UNCHANGED <<nonCamera, now>>

\* ---- the video element loads the metadata of its source: the installed
\* onloadedmetadata resolves its call, which finishes (camera.js 75-89)
VideoMetadata ==
    /\ camera.srcObject # 0
    /\ ~camera.videoReady
    /\ camera' = IF camera.handler # 0 /\ camera.starting[camera.handler] = "meta"
                 THEN [camera EXCEPT !.videoReady = TRUE,
                                     !.isActive = TRUE,
                                     !.starting[camera.handler] = "done"]
                 ELSE [camera EXCEPT !.videoReady = TRUE]
    /\ UNCHANGED <<nonCamera, now, conversation>>

\* ---- stopCamera is called
CallStopCamera ==
    /\ camera.isActive \/ camera.stream # 0
    /\ camera' = StopCamera(camera)
    /\ UNCHANGED <<nonCamera, now, conversation>>

\* ---- stopCamera is called with nothing to stop, while a startCamera is
\* waiting for the permission
CallStopCameraEarly ==
    /\ ~camera.isActive
    /\ camera.stream = 0
    /\ \E i \in 1..Len(camera.starting) : camera.starting[i] = "perm"
    /\ camera' = StopCamera(camera)
    /\ UNCHANGED <<nonCamera, now, conversation>>

\* ---- CameraManager.cleanup (camera.js 334-338)
CallCleanup ==
    /\ camera' = [StopCamera(camera) EXCEPT !.captureCount = 0,
                                            !.lastCaptureTime = 0]
    /\ UNCHANGED <<nonCamera, now, conversation>>

NextCamera ==
    \/ \E d \in TickSteps : Tick(d)
    \/ CallCaptureFrame
    \/ CallStartCamera
    \/ \E i \in 1..MaxStarts : PermissionGranted(i)
    \/ \E i \in 1..MaxStarts : PermissionDenied(i)
    \/ VideoMetadata
    \/ CallStopCamera

\* ======================================================================
\* Session orchestrator (class LiveRecipeAI) and AppState
\* ======================================================================
\* ---- strings: the characters of every text the handlers search
Chars(t) ==
    CASE t = "ready" -> <<"r", "e", "a", "d", "y">>
      [] t = "haan" -> <<"h", "a", "a", "n">>
      [] t = "nahi" -> <<"n", "a", "h", "i">>
      [] t = "next" -> <<"n", "e", "x", "t">>
      [] t = "previous" -> <<"p", "r", "e", "v", "i", "o", "u", "s">>
      [] t = "pause" -> <<"p", "a", "u", "s", "e">>
      [] t = "stop" -> <<"s", "t", "o", "p">>
      [] t = "ingredients" -> <<"i", "n", "g", "r", "e", "d", "i", "e", "n", "t", "s">>
      [] t = "camera on" -> <<"c", "a", "m", "e", "r", "a", " ", "o", "n">>
      [] t = "camera off" -> <<"c", "a", "m", "e", "r", "a", " ", "o", "f", "f">>
      [] t = "done" -> <<"d", "o", "n", "e">>
      [] t = "complete" -> <<"c", "o", "m", "p", "l", "e", "t", "e">>
      [] t = "finished" -> <<"f", "i", "n", "i", "s", "h", "e", "d">>
      [] t = "hogaya" -> <<"h", "o", "g", "a", "y", "a">>
      [] t = "ho gaya" -> <<"h", "o", " ", "g", "a", "y", "a">>
      [] t = "taiyar" -> <<"t", "a", "i", "y", "a", "r">>
      [] t = "dekho" -> <<"d", "e", "k", "h", "o">>
      [] t = "look" -> <<"l", "o", "o", "k">>
      [] t = "see" -> <<"s", "e", "e">>
      [] t = "check" -> <<"c", "h", "e", "c", "k">>
      [] t = "Camera ON" -> <<"C", "a", "m", "e", "r", "a", " ", "O", "N">>
      [] t = "already done" -> <<"a", "l", "r", "e", "a", "d", "y", " ", "d", "o", "n", "e">>
      [] t = "namak kitna" -> <<"n", "a", "m", "a", "k", " ", "k", "i", "t", "n", "a">>
      [] t = "Theek hai" -> <<"T", "h", "e", "e", "k", " ", "h", "a", "i">>
      [] t = "Step complete" -> <<"S", "t", "e", "p", " ", "c", "o", "m", "p", "l", "e", "t", "e">>
      [] t = "stop next" -> <<"s", "t", "o", "p", " ", "n", "e", "x", "t">>
      [] t = "camera off nahi" -> <<"c", "a", "m", "e", "r", "a", " ", "o", "f", "f", " ", "n", "a", "h", "i">>
      [] t = "pause previous" -> <<"p", "a", "u", "s", "e", " ", "p", "r", "e", "v", "i", "o", "u", "s">>

\* ---- String.prototype.toLowerCase on the letters the texts use
LowerChar(c) ==
    CASE c = "C" -> "c"
      [] c = "N" -> "n"
      [] c = "O" -> "o"
      [] c = "S" -> "s"
      [] c = "T" -> "t"
      [] OTHER -> c

ToLowerCase(s) == [i \in 1..Len(s) |-> LowerChar(s[i])]

\* ---- String.prototype.includes
Includes(s, sub) ==
    \E i \in 1..(Len(s) - Len(sub) + 1) : SubSeq(s, i, i + Len(sub) - 1) = sub

\* what the user can say or type, and what the model can answer
UserMessages ==
    {"already done", "next", "stop", "Camera ON", "ho gaya", "dekho",
     "namak kitna"}
\* what the user says in a dialogue about the confirmation and the steps
DialogueMessages == {"ready", "namak kitna"}
\* messages that hold two commands of the table, the later one first
CommandMessages == {"stop next", "camera off nahi", "pause previous"}
AIResponses == {"Theek hai", "Step complete"}
FallbackResponse == "Mujhe samajh nahi aaya"

\* ---- the command table of handleSpecialCommands, in its order
\* (camera.js 793-838)
Commands == <<"ready", "haan", "nahi", "next", "previous", "pause", "stop", "ingredients", "camera on", "camera off">>

\* ---- completeKeywords (camera.js 851) and the camera words (camera.js 744)
CompleteKeywords == {"done", "complete", "finished", "hogaya", "ho gaya", "taiyar"}
LookKeywords == {"dekho", "look", "see", "check"}

\* ---- AppState (state.js): the session, the recipe and the preferences
AppInit ==
    /\ app = [isCooking |-> FALSE, isPaused |-> FALSE,
              waitingForConfirmation |-> FALSE, currentStep |-> 0,
              recipe |-> NoRecipe, cameraEnabled |-> FALSE]
    /\ orch = [inflight |-> {}, requested |-> {}, toggles |-> {},
               cookStarts |-> <<>>, msgs |-> 0, clicks |-> 0, completions |-> 0,
               speechToggles |-> 0, failed |-> {}, alerts |-> 0,
               hidden |-> FALSE, visibilityChanges |-> 0, micToggles |-> 0]

Max(a, b) == IF a > b THEN a ELSE b
Min(a, b) == IF a < b THEN a ELSE b

\* AppState.startCooking: the session state is created
AppStartCooking(a) ==
    [a EXCEPT !.isCooking = TRUE, !.isPaused = FALSE,
              !.waitingForConfirmation = FALSE, !.currentStep = 0,
              !.recipe = NoRecipe]

\* AppState.updateRecipe: the recipe is replaced wholesale, the cursor clamped
AppUpdateRecipe(a, r) ==
    [a EXCEPT !.recipe = r,
              !.currentStep = Min(a.currentStep, Max(r.steps - 1, 0))]

\* AppState.nextStep / prevStep: whether the cursor moved, and the state after
AppNextStep(a) ==
    IF a.currentStep < a.recipe.steps - 1
    THEN [ok |-> TRUE, app |-> [a EXCEPT !.currentStep = @ + 1]]
    ELSE [ok |-> FALSE, app |-> a]

AppPrevStep(a) ==
    IF a.currentStep > 0
    THEN [ok |-> TRUE, app |-> [a EXCEPT !.currentStep = @ - 1]]
    ELSE [ok |-> FALSE, app |-> a]

\* AppState.completeCurrentStep: one step on, never past the last step
AppCompleteCurrentStep(a) == AppNextStep(a)

\* AppState.pauseCooking
AppPauseCooking(a) ==
    IF a.isCooking THEN [a EXCEPT !.isPaused = ~@] ELSE a

\* AppState.resetCooking: recipe and session state are discarded
AppResetCooking(a) ==
    [a EXCEPT !.isCooking = FALSE, !.isPaused = FALSE,
              !.waitingForConfirmation = FALSE, !.currentStep = 0,
              !.recipe = NoRecipe]

\* ---- the state the handlers of the orchestrator read and write
World ==
    [app |-> app, orch |-> orch, speech |-> speech, camera |-> camera,
     conversation |-> conversation, enabled |-> aiSpeechEnabled, now |-> now]

Commit(w) ==
    /\ app' = w.app
    /\ orch' = w.orch
    /\ speech' = w.speech
    /\ camera' = w.camera
    /\ conversation' = w.conversation
    /\ aiSpeechEnabled' = w.enabled
    /\ now' = w.now
    /\ UNCHANGED aiVars

\* AppState.addToConversation; req: the message the entry belongs to (history)
AddToConversation(w, role, text, req) ==
    [w EXCEPT !.conversation = Append(@, Entry(role, text, req))]

\* ---- speakAIResponse (camera.js 950-965); the texts of the model carry no
\* brackets, parentheses, asterisks or outer blanks for the clean-up to remove
SpeakAIResponse(w, text) ==
    IF ~w.enabled THEN w
    ELSE LET s == [w.speech EXCEPT !.handed = @ + 1]
         IN [w EXCEPT !.speech = QueueSpeech(s, Utterance(text, s.handed),
                                             w.enabled)]

\* ---- nextStep / prevStep (camera.js 634-649)
NextStep(w) ==
    LET r == AppNextStep(w.app)
        w1 == [w EXCEPT !.app = r.app]
    IN IF r.ok THEN SpeakAIResponse(w1, <<"Agla step", r.app.currentStep>>)
       ELSE w1

PrevStep(w) ==
    LET r == AppPrevStep(w.app)
        w1 == [w EXCEPT !.app = r.app]
    IN IF r.ok THEN SpeakAIResponse(w1, <<"Pichla step", r.app.currentStep>>)
       ELSE w1

\* ---- togglePause (camera.js 610-613)
TogglePause(w) == [w EXCEPT !.app = AppPauseCooking(@)]

\* ---- resetCooking (camera.js 616-631); confirmed: the answer to confirm()
ResetCooking(w, confirmed) ==
    IF confirmed
    THEN [w EXCEPT !.app = AppResetCooking(@),
                   !.camera = StopCamera(@),
                   !.speech = StopSpeaking(@)]
    ELSE w

\* ---- showIngredients (camera.js 1116-1127)
ShowIngredients(w) ==
    IF w.app.recipe.ingredients = 0
    THEN SpeakAIResponse(w, <<"Abhi tak koi ingredients nahi hain", 0>>)
    ELSE SpeakAIResponse(w, <<"Ingredients hain", w.app.recipe.ingredients>>)

\* ---- CameraManager.startCamera up to its first await: the call number, 0
\* when the camera is active already and the call returns true at once
StartCamera(c) ==
    IF c.isActive
    THEN [camera |-> [c EXCEPT !.starts = @ + 1], call |-> 0]
    ELSE [camera |-> [c EXCEPT !.starts = @ + 1, !.starting = Append(@, "perm")],
          call |-> Len(c.starting) + 1]

\* ---- toggleCamera after startCamera returned (camera.js 882-893)
CameraToggledOn(w, started) ==
    IF started
    THEN AddToConversation([w EXCEPT !.app.cameraEnabled = TRUE], "ai",
                           "Camera on", 0)
    ELSE w

\* ---- toggleCamera (camera.js 872-894); force: "true", "false", "null" or,
\* as the click listener of the button passes it (camera.js 515), "event"
ToggleCamera(w, force) ==
    LET shouldEnable == IF force # "null" THEN force \in {"true", "event"}
                        ELSE ~w.app.cameraEnabled
    IN IF shouldEnable
       THEN LET r == StartCamera(w.camera)
                w1 == [w EXCEPT !.camera = r.camera]
            IN IF r.call = 0 THEN CameraToggledOn(w1, TRUE)
               ELSE [w1 EXCEPT !.orch.toggles = @ \cup {r.call}]
       ELSE AddToConversation([w EXCEPT !.camera = StopCamera(@),
                                        !.app.cameraEnabled = FALSE],
                              "ai", "Camera off", 0)

\* ---- the handler of 'ready' (camera.js 794-799): the text spoken ends
\* with AppState.getCurrentStepText(), the text of the step at the cursor
ReadyKeepsWaiting(w) ==
    SpeakAIResponse(w, <<"Accha! Chaliye shuru karte hain", w.app.currentStep>>)

Ready(w) ==
    SpeakAIResponse([w EXCEPT !.app.waitingForConfirmation = FALSE],
                    <<"Accha! Chaliye shuru karte hain", w.app.currentStep>>)

\* ---- the handlers of the command table (camera.js 794-837)
RunCommand(w, command, confirmed) ==
    CASE command = "ready" -> Ready(w)
      [] command = "haan" ->
           SpeakAIResponse([w EXCEPT !.app.waitingForConfirmation = FALSE],
                           <<"Theek hai", w.app.currentStep>>)
      [] command = "nahi" -> SpeakAIResponse(w, <<"Kya problem hai?", 0>>)
      [] command = "next" -> NextStep(w)
      [] command = "previous" -> PrevStep(w)
      [] command = "pause" -> TogglePause(w)
      [] command = "stop" -> ResetCooking(w, confirmed)
      [] command = "ingredients" -> ShowIngredients(w)
      [] command = "camera on" -> ToggleCamera(w, "true")
      [] command = "camera off" -> ToggleCamera(w, "false")

\* ---- the loop of handleSpecialCommands (camera.js 840-846): the place in
\* the table of the first command the message includes, 0 when there is none
FirstCommandExact(message) ==
    IF \E k \in 1..Len(Commands) : message = Chars(Commands[k])
    THEN CHOOSE k \in 1..Len(Commands) : message = Chars(Commands[k])
    ELSE 0

\* the last command of the table the message includes
LastCommand(message) ==
    IF \E k \in 1..Len(Commands) : Includes(message, Chars(Commands[k]))
    THEN CHOOSE k \in 1..Len(Commands) :
            /\ Includes(message, Chars(Commands[k]))
            /\ \A j \in (k + 1)..Len(Commands) :
                  ~Includes(message, Chars(Commands[j]))
    ELSE 0

FirstCommand(message) ==
    IF \E k \in 1..Len(Commands) : Includes(message, Chars(Commands[k]))
    THEN CHOOSE k \in 1..Len(Commands) :
            /\ Includes(message, Chars(Commands[k]))
            /\ \A j \in 1..(k - 1) : ~Includes(message, Chars(Commands[j]))
    ELSE 0

\* ---- shouldMarkStepComplete (camera.js 850-856)
UserComplete(userMessage) ==
    \E keyword \in CompleteKeywords : Includes(userMessage, Chars(keyword))

AIComplete(aiResponse) ==
    \E keyword \in CompleteKeywords :
        Includes(ToLowerCase(aiResponse), Chars(keyword))

ShouldMarkStepCompleteAlways(aiResponse, userMessage, a) ==
    UserComplete(userMessage) \/ AIComplete(aiResponse)

ShouldMarkStepComplete(aiResponse, userMessage, a) ==
    (UserComplete(userMessage) \/ AIComplete(aiResponse))
        /\ a.waitingForConfirmation

\* ---- captureFrame called by processUserMessage (camera.js 749, 755)
Capture(w) ==
    LET r == CaptureFrame([w.camera EXCEPT !.calls = @ + 1], w.now)
    IN [w EXCEPT !.camera = r.camera,
                 !.conversation = CameraShowError(@, r.said)]

\* processUserMessage giving up, with no AI request, when a capture it
\* attempted returned no frame
ProcessUserMessageNeedsFrame(w, id, message, analyze, confirmed) ==
    IF Len(Chars(message)) < 2 THEN w
    ELSE LET lowerMessage == ToLowerCase(Chars(message))
             k == FirstCommand(lowerMessage)
         IN IF k # 0 THEN RunCommand(w, Commands[k], confirmed)
            ELSE LET look == \E word \in LookKeywords :
                                 Includes(lowerMessage, Chars(word))
                     w1 == IF look /\ w.app.cameraEnabled THEN Capture(w) ELSE w
                     got1 == w1.camera.calls # w.camera.calls
                                 /\ w1.camera.result = "frame"
                     w2 == IF ~got1 /\ analyze THEN Capture(w1) ELSE w1
                     got2 == w2.camera.calls # w.camera.calls
                                 /\ w2.camera.result = "frame"
                     request == [id |-> id, message |-> message, image |-> got2]
                 IN IF w2.camera.calls # w.camera.calls /\ ~got2
                    THEN w2
                    ELSE [w2 EXCEPT !.orch.inflight = @ \cup {request},
                                    !.orch.requested = @ \cup {id}]

\* ---- processUserMessage up to its await (camera.js 726-759); id numbers
\* the messages, analyze is what AppState.shouldAnalyzeCamera() answers
ProcessUserMessage(w, id, message, analyze, confirmed) ==
    IF Len(Chars(message)) < 2 THEN w
    ELSE LET lowerMessage == ToLowerCase(Chars(message))
             k == FirstCommand(lowerMessage)
         IN IF k # 0 THEN RunCommand(w, Commands[k], confirmed)
            ELSE LET look == \E word \in LookKeywords :
                                 Includes(lowerMessage, Chars(word))
                     w1 == IF look /\ w.app.cameraEnabled THEN Capture(w) ELSE w
                     got1 == w1.camera.calls # w.camera.calls
                                 /\ w1.camera.result = "frame"
                     w2 == IF ~got1 /\ analyze THEN Capture(w1) ELSE w1
                     got2 == w2.camera.calls # w.camera.calls
                                 /\ w2.camera.result = "frame"
                     request == [id |-> id, message |-> message, image |-> got2]
                 IN [w2 EXCEPT !.orch.inflight = @ \cup {request},
                               !.orch.requested = @ \cup {id}]

\* every request processUserMessage can have in flight
Requests ==
    [id : 1..MaxUserEvents, message : UserMessages \cup DialogueMessages,
     image : BOOLEAN]

\* ---- the request of an invocation has settled: it is no longer awaited
Settled(o, request) == [o EXCEPT !.inflight = @ \ {request}]

\* ---- onSpeechResult / sendTextMessage (camera.js 693-723)
SubmitMessage(message, analyze, confirmed) ==
    /\ orch.msgs + orch.clicks < MaxUserEvents
    /\ LET id == orch.msgs + 1
           w == AddToConversation([World EXCEPT !.orch.msgs = id],
                                  "user", message, id)
       IN Commit(ProcessUserMessage(w, id, message, analyze, confirmed))

\* ---- generateAIResponse resolves: processUserMessage goes on
\* (camera.js 759-773, 786-788)
AIResolves(request, aiResponse) ==
    /\ request \in orch.inflight
    /\ LET w1 == AddToConversation([World EXCEPT !.orch = Settled(@, request)],
                                   "ai", aiResponse, request.id)
           w2 == SpeakAIResponse(w1, <<aiResponse, 0>>)
           lowerMessage == ToLowerCase(Chars(request.message))
           mark == ShouldMarkStepComplete(Chars(aiResponse), lowerMessage, w2.app)
           r == AppCompleteCurrentStep(w2.app)
       IN Commit(IF mark
                 THEN [w2 EXCEPT !.app = r.app, !.orch.completions = @ + 1]
                 ELSE w2)

\* ---- LiveRecipeAI.showError (camera.js 1212-1220): a system entry and an
\* alert
ShowError(w, message, req) ==
    [AddToConversation(w, "system", message, req) EXCEPT !.orch.alerts = @ + 1]

\* ---- the catch of processUserMessage (camera.js 775-785)
AIFailedResets(w, request) ==
    LET w1 == AddToConversation([w EXCEPT !.orch.failed = @ \cup {request.id},
                                          !.app = AppResetCooking(@)],
                                "ai", FallbackResponse, request.id)
        w2 == SpeakAIResponse(w1, <<FallbackResponse, 0>>)
    IN ShowError(w2, "Error: AI Error", request.id)

AIFailed(w, request) ==
    LET w1 == AddToConversation([w EXCEPT !.orch.failed = @ \cup {request.id}],
                                "ai", FallbackResponse, request.id)
        w2 == SpeakAIResponse(w1, <<FallbackResponse, 0>>)
    IN ShowError(w2, "Error: AI Error", request.id)

\* ---- generateAIResponse rejects: processUserMessage goes on in its catch
\* (camera.js 775-788)
AIRejects(request) ==
    /\ request \in orch.inflight
    /\ Commit(AIFailed([World EXCEPT !.orch = Settled(@, request)], request))

\* ---- the buttons (camera.js 506-516)
Click(w) == [w EXCEPT !.orch.clicks = @ + 1]

ClickNextStep ==
    /\ orch.msgs + orch.clicks < MaxUserEvents
    /\ Commit(NextStep(Click(World)))

ClickPrevStep ==
    /\ orch.msgs + orch.clicks < MaxUserEvents
    /\ Commit(PrevStep(Click(World)))

ClickPause ==
    /\ orch.msgs + orch.clicks < MaxUserEvents
    /\ Commit(TogglePause(Click(World)))

ClickReset(confirmed) ==
    /\ orch.msgs + orch.clicks < MaxUserEvents
    /\ Commit(ResetCooking(Click(World), confirmed))

ClickToggleCamera ==
    /\ orch.msgs + orch.clicks < MaxUserEvents
    /\ Commit(ToggleCamera(Click(World), "event"))

\* ---- SpeechManager.toggleSpeech (part_000 224-236)
ToggleSpeech(w) ==
    IF w.enabled
    THEN [w EXCEPT !.enabled = FALSE, !.speech = StopSpeaking(@)]
    ELSE [w EXCEPT !.enabled = TRUE]

\* ---- toggleAISpeech (camera.js 936-947)
ToggleAISpeech(w) ==
    LET w1 == ToggleSpeech(w)
    IN AddToConversation(w1, "system",
                         IF w1.enabled THEN "AI speech enabled"
                         ELSE "AI speech disabled", 0)

ClickToggleAISpeech ==
    /\ orch.speechToggles < MaxSpeechToggles
    /\ Commit(ToggleAISpeech([World EXCEPT !.orch.speechToggles = @ + 1]))

\* ---- toggleMicrophone (camera.js 922-933): it calls toggleSpeech
ToggleMicrophone(w) ==
    LET w1 == ToggleSpeech(w)
    IN AddToConversation(w1, "system",
                         IF w1.enabled THEN "Microphone ready"
                         ELSE "Microphone off", 0)

ClickToggleMicrophone ==
    /\ orch.micToggles < MaxMicToggles
    /\ Commit(ToggleMicrophone([World EXCEPT !.orch.micToggles = @ + 1]))

\* ---- onVisibilityChange (camera.js 1225-1239)
OnVisibilityChange(w, hidden) ==
    IF hidden
    THEN [w EXCEPT !.speech = StopListening(StopSpeaking(@))]
    ELSE IF w.app.isCooking /\ ~w.app.isPaused
         THEN SpeakAIResponse(w, <<"Welcome back", 0>>)
         ELSE w

\* ---- the page is hidden or shown again: a visibilitychange event
VisibilityChanges ==
    /\ orch.visibilityChanges < MaxVisibilityChanges
    /\ LET w == [World EXCEPT !.orch.hidden = ~@,
                              !.orch.visibilityChanges = @ + 1]
       IN Commit(OnVisibilityChange(w, w.orch.hidden))

\* ---- startCooking (camera.js 554-578); dishGiven: prompt() returned a name
BeginExtraction(w, k) ==
    [w EXCEPT !.app = AppStartCooking(@),
              !.orch.cookStarts[k] = [phase |-> "extract", call |-> 0]]

ClickStartCooking(dishGiven) ==
    /\ orch.msgs + orch.clicks < MaxUserEvents
    /\ LET w == Click(World)
           k == Len(orch.cookStarts) + 1
       IN IF w.app.isCooking \/ ~dishGiven THEN Commit(w)
          ELSE IF w.app.cameraEnabled
          THEN LET r == StartCamera(w.camera)
                   w1 == [w EXCEPT !.camera = r.camera,
                                   !.orch.cookStarts =
                                       Append(@, [phase |-> "camera",
                                                  call |-> r.call])]
               IN Commit(IF r.call = 0 THEN BeginExtraction(w1, k) ELSE w1)
          ELSE Commit(BeginExtraction(
                   [w EXCEPT !.orch.cookStarts =
                                 Append(@, [phase |-> "camera", call |-> 0])], k))

\* ---- CameraManager.toggleCamera (camera.js 121-132) up to its await;
\* toggling keeps the startCamera calls it is waiting for
CallToggleCamera ==
    /\ camera.starts < MaxStarts
    /\ IF camera.isActive
       THEN Commit([World EXCEPT !.camera = StopCamera(@),
                                 !.app.cameraEnabled = FALSE])
       ELSE LET r == StartCamera(camera)
            IN Commit([World EXCEPT
                          !.camera = [r.camera EXCEPT
                                         !.toggling = @ \cup {r.call}]])

\* ---- CameraManager.toggleCamera after startCamera returned (camera.js
\* 126-131): the preference becomes what startCamera returned
CameraToggleReturns(call) ==
    /\ call \in camera.toggling
    /\ camera.starting[call] \in {"done", "failed"}
    /\ Commit([World EXCEPT !.camera.toggling = @ \ {call},
                            !.app.cameraEnabled =
                                (camera.starting[call] = "done")])

\* ---- a startCamera call has returned: the handler that awaits it goes on,
\* toggleCamera (camera.js 882-893) or startCooking (camera.js 574-578)
StartCameraReturns(call) ==
    /\ call \in 1..Len(camera.starting)
    /\ camera.starting[call] \in {"done", "failed"}
    /\ IF call \in orch.toggles
       THEN Commit(CameraToggledOn([World EXCEPT !.orch.toggles = @ \ {call}],
                                   camera.starting[call] = "done"))
       ELSE \E k \in 1..Len(orch.cookStarts) :
               /\ orch.cookStarts[k].phase = "camera"
               /\ orch.cookStarts[k].call = call
               /\ Commit(BeginExtraction(World, k))

\* ---- the recipes extractRecipe hands to startCooking: what ExtractOutcome
\* makes of a failed request and of some responses
SampleResponses == {<<"stepHeader", "item", "item">>, <<"item">>}

ExtractedRecipes ==
    {ExtractOutcome(FALSE, <<>>).recipe}
        \cup {ExtractOutcome(TRUE, text).recipe : text \in SampleResponses}

\* startCooking going on as its catch does: the recipe is installed and
\* announced, and no confirmation is awaited
ExtractRecipeReturnsToCatch(k, recipe) ==
    /\ k \in 1..Len(orch.cookStarts)
    /\ orch.cookStarts[k].phase = "extract"
    /\ LET w1 == [World EXCEPT !.app = AppUpdateRecipe(@, recipe),
                               !.orch.cookStarts[k].phase = "done"]
       IN Commit(AddToConversation(w1, "ai",
                                   "Default recipe se shuru karte hain", 0))

\* ---- extractRecipe returns: startCooking goes on (camera.js 578-607)
ExtractRecipeReturns(k, recipe) ==
    /\ k \in 1..Len(orch.cookStarts)
    /\ orch.cookStarts[k].phase = "extract"
    /\ LET w1 == [World EXCEPT !.app = AppUpdateRecipe(@, recipe),
                               !.orch.cookStarts[k].phase = "done"]
           w2 == SpeakAIResponse(w1, <<"Chaliye shuru karte hain", 0>>)
           w3 == AddToConversation(w2, "ai", "Ingredients check karein", 0)
       IN Commit([w3 EXCEPT !.app.waitingForConfirmation = TRUE])

\* ======================================================================
\* Specifications
\* ======================================================================
\* one AI request after the other, each with its retries
NextAI ==
    \/ \E caller \in {"generate", "extract"} : GenerateResponse(caller)
    \/ FetchResolves
    \/ \E error \in HttpErrors : FetchHttpError(error)
    \/ ErrorBodyRead
    \/ FetchRejects
    \/ TimeoutFires
    \/ \E shape \in BodyShapes :
          \E text \in (IF shape = "text" THEN Texts ELSE {<<>>}) :
             BodyResolves(shape, text)
    \/ DelayElapses

InitAI ==
    /\ AIInit
    /\ SpeechInit
    /\ CameraInit
    /\ AppInit

SpecAI == InitAI /\ [][NextAI]_vars

\* queueSpeech calls interleaved with the synthesizer's events
NextSpeechQueue ==
    \/ \E text \in SpeechTexts : CallQueueSpeech(text)
    \/ SynthStart
    \/ SynthEnd
    \/ SynthError

\* the repository's configuration: a key, MAX_RETRIES left at its default
Init ==
    /\ AIConstructed(TRUE, 0)
    /\ SpeechInit
    /\ CameraInit
    /\ AppInit

SpecSpeechQueue == Init /\ [][NextSpeechQueue]_vars

\* the facade with all its callers: speak, queueSpeech, the AI-speech
\* button, the page being hidden, and the synthesizer's events
NextSpeech ==
    \/ \E text \in SpeechTexts : CallSpeak(text)
    \/ \E text \in SpeechTexts : CallQueueSpeech(text)
    \/ ClickToggleAISpeech
    \/ VisibilityChanges
    \/ SynthStart
    \/ SynthEnd
    \/ SynthError

SpecSpeech == Init /\ [][NextSpeech]_vars

\* the voice button and the recognizer's events, next to queued speech
NextListening ==
    \/ PressVoiceButton
    \/ ReleaseVoiceButton
    \/ ClickToggleMicrophone
    \/ RecognitionStarts
    \/ RecognitionEnds
    \/ RecognitionFails
    \/ \E text \in SpeechTexts : CallQueueSpeech(text)
    \/ SynthStart
    \/ SynthEnd

SpecListening == Init /\ [][NextListening]_vars

\* messages that ask for a look, next to the camera's start and the clock
NextVisual ==
    \/ CallStartCamera
    \/ \E i \in 1..MaxStarts : PermissionGranted(i)
    \/ VideoMetadata
    \/ \E d \in TickSteps : Tick(d)
    \/ \E analyze \in BOOLEAN : SubmitMessage("dekho", analyze, FALSE)

SpecVisual == Init /\ [][NextVisual]_vars

\* messages with more than one command, before and after cooking has started
NextCommands ==
    \/ \E message \in CommandMessages, confirmed \in BOOLEAN :
          SubmitMessage(message, FALSE, confirmed)
    \/ ClickStartCooking(TRUE)
    \/ \E k \in 1..MaxUserEvents, recipe \in ExtractedRecipes :
          ExtractRecipeReturns(k, recipe)
    \/ SynthStart
    \/ SynthEnd

SpecCommands == Init /\ [][NextCommands]_vars

SpecCamera == Init /\ [][NextCamera]_vars

\* the camera through starts, stops and cleanups, with time passing a
\* whole cooldown at a step
NextLifecycle ==
    \/ Tick(CooldownMs)
    \/ CallCaptureFrame
    \/ CallStartCamera
    \/ \E i \in 1..MaxStarts : PermissionGranted(i)
    \/ VideoMetadata
    \/ CallStopCamera
    \/ CallStopCameraEarly
    \/ CallCleanup

SpecLifecycle == Init /\ [][NextLifecycle]_vars

\* starting to cook with the camera preference on: the camera is switched
\* by the camera module and the Start Cooking button is clicked
NextCooking ==
    \/ CallToggleCamera
    \/ \E call \in 1..(MaxStarts + MaxUserEvents) : CameraToggleReturns(call)
    \/ CallStopCamera
    \/ ClickStartCooking(TRUE)
    \/ \E i \in 1..(MaxStarts + MaxUserEvents) : PermissionGranted(i)
    \/ VideoMetadata
    \/ \E call \in 1..(MaxStarts + MaxUserEvents) : StartCameraReturns(call)
    \/ \E k \in 1..MaxUserEvents, recipe \in ExtractedRecipes :
          ExtractRecipeReturns(k, recipe)

SpecCooking == Init /\ [][NextCooking]_vars

\* the session: messages, buttons, AI answers and the camera's events
Next ==
    \/ \E message \in UserMessages, analyze \in BOOLEAN, confirmed \in BOOLEAN :
          SubmitMessage(message, analyze, confirmed)
    \/ \E request \in Requests, aiResponse \in AIResponses :
          AIResolves(request, aiResponse)
    \/ \E request \in Requests : AIRejects(request)
    \/ ClickNextStep
    \/ ClickPrevStep
    \/ ClickPause
    \/ \E confirmed \in BOOLEAN : ClickReset(confirmed)
    \/ ClickToggleCamera
    \/ \E dishGiven \in BOOLEAN : ClickStartCooking(dishGiven)
    \/ \E call \in 1..MaxUserEvents : StartCameraReturns(call)
    \/ \E k \in 1..MaxUserEvents, recipe \in ExtractedRecipes :
          ExtractRecipeReturns(k, recipe)
    \/ \E i \in 1..MaxUserEvents : PermissionGranted(i)
    \/ \E i \in 1..MaxUserEvents : PermissionDenied(i)
    \/ VideoMetadata

Spec == Init /\ [][Next]_vars

\* a dialogue: cooking is started, messages are answered by handlers or by
\* the AI, and the synthesizer plays what is narrated; speech can be turned off
NextDialogue ==
    \/ \E message \in DialogueMessages :
          SubmitMessage(message, FALSE, FALSE)
    \/ \E request \in Requests, aiResponse \in AIResponses :
          AIResolves(request, aiResponse)
    \/ \E request \in Requests : AIRejects(request)
    \/ ClickStartCooking(TRUE)
    \/ \E k \in 1..MaxUserEvents, recipe \in ExtractedRecipes :
          ExtractRecipeReturns(k, recipe)
    \/ ClickToggleAISpeech
    \/ SynthStart
    \/ SynthEnd

SpecDialogue == Init /\ [][NextDialogue]_vars

\* ---------------------------------------------------------------- claims
\* C1: a request whose attempts all fail is retried exactly maxRetries times
\* (maxRetries + 1 fetches) and then fails to its caller; no request is ever
\* given more than maxRetries + 1 attempts, and every attempt but the first
\* follows one backoff delay.
C1_RetriesExactlyMax ==
    /\ attempts <= maxRetries + 1
    /\ attempts > 0 => Len(delays) \in {attempts - 1, attempts}
    /\ aiPhase = "delay" <=> Len(delays) = attempts /\ attempts > 0
    /\ (aiPhase = "failed" /\ aiError # NotInitializedError) =>
          /\ attempts = maxRetries + 1
          /\ Len(delays) = maxRetries

\* every attempt of a request failed under the default of 3 retries
C1_Witness ==
    /\ aiPhase = "failed"
    /\ cfgMaxRetries = 0
    /\ maxRetries = 3
    /\ attempts = 4
    /\ Len(delays) = 3

C4_HeuristicAfterStrictFailure ==
    (aiCaller = "extract" /\ aiPhase = "returned" /\ recipeOut.source # "json")
        => heuristicTried

\* C5: when extractRecipe got a response and returns the default recipe, both
\* the strict parse and the heuristic parse have been tried.
C5_DefaultOnlyAfterBothStages ==
    (aiCaller = "extract" /\ aiPhase = "returned" /\ recipeOut.source = "default")
        => (strictTried /\ heuristicTried)

\* C6: a captureFrame call on an active camera with video ready, made after
\* an earlier successful capture, returns no frame and keeps the last-capture
\* time when less than 6000 ms have passed since that capture, and returns a
\* frame and sets the last-capture time to the time of the call otherwise.
C6_CooldownDecidesCapture ==
    [][(/\ camera'.calls = camera.calls + 1
        /\ camera.isActive
        /\ camera.videoReady
        /\ camera.captureCount > 0)
       => IF now - camera.lastCaptureTime < 6000
          THEN /\ camera'.result = "null"
               /\ camera'.lastCaptureTime = camera.lastCaptureTime
               /\ camera'.captureCount = camera.captureCount
          ELSE /\ camera'.result = "frame"
               /\ camera'.lastCaptureTime = now
               /\ camera'.captureCount = camera.captureCount + 1]_vars

\* three calls on an active camera: a capture, a call rejected 5999 ms later
\* and a capture 6000 ms after the first one
C6_Witness ==
    /\ camera.isActive
    /\ camera.videoReady
    /\ camera.calls = 3
    /\ camera.captureCount = 2
    /\ camera.result = "frame"
    /\ now - camera.lastCaptureTime = 0
    /\ now = PageLoadTime + 6000

\* C3: the texts handed to queueSpeech start playing in the order in which
\* they were handed over.
C3_SpokenInHandedOrder ==
    \A i, j \in 1..Len(speech.spoken) :
        i < j => speech.spoken[i] < speech.spoken[j]

\* ----------------------------------------------------------------------
\* C7: while a session is cooking with its recipe installed, the step
\* cursor is a valid index of the recipe's steps: 0 <= currentStep < number
\* of steps, after any next-step, previous-step and completion.
C7_CursorWithinSteps ==
    (app.isCooking /\ app.recipe # NoRecipe) =>
        (app.currentStep >= 0 /\ app.currentStep < app.recipe.steps)

\* ----------------------------------------------------------------------
\* C8: at most one AI request of processUserMessage is outstanding at any
\* time, and the responses to the messages are appended to the conversation
\* in the order the messages were submitted.
C8_OneOutstandingRequest ==
    /\ Cardinality(orch.inflight) <= 1
    /\ LET answers == SelectSeq(conversation,
                                LAMBDA e : e.role = "ai" /\ e.req # 0)
       IN \A i, j \in 1..Len(answers) :
              i < j => answers[i].req < answers[j].req

\* ----------------------------------------------------------------------
\* C9 as stated: when processUserMessage marks the current step complete
\* after an AI response, the session was waiting for confirmation and BOTH
\* the response and the user's message contain a completion keyword.
C9_CompleteOnBothKeywords ==
    [][orch'.completions # orch.completions =>
         /\ app.waitingForConfirmation
         /\ \E request \in orch.inflight \ orch'.inflight :
              LET answer == conversation'[Len(conversation')]
              IN /\ answer.role = "ai"
                 /\ answer.req = request.id
                 /\ \E keyword \in CompleteKeywords :
                       Includes(ToLowerCase(Chars(answer.text)), Chars(keyword))
                 /\ \E keyword \in CompleteKeywords :
                       Includes(ToLowerCase(Chars(request.message)),
                                Chars(keyword))]_vars

\* C9 as amended: when processUserMessage marks the current step complete
\* after an AI response, the session was waiting for confirmation and the
\* response OR the user's message contains a completion keyword.
C9_CompleteOnEitherKeyword ==
    [][orch'.completions # orch.completions =>
         /\ app.waitingForConfirmation
         /\ \E request \in orch.inflight \ orch'.inflight :
              LET answer == conversation'[Len(conversation')]
              IN /\ answer.role = "ai"
                 /\ answer.req = request.id
                 /\ \/ \E keyword \in CompleteKeywords :
                          Includes(ToLowerCase(Chars(answer.text)),
                                   Chars(keyword))
                    \/ \E keyword \in CompleteKeywords :
                          Includes(ToLowerCase(Chars(request.message)),
                                   Chars(keyword))]_vars

\* a step was marked complete on the AI's keyword alone: the user's message
\* "namak kitna" has none
C9_Witness ==
    /\ orch.completions = 1
    /\ orch.msgs = 1
    /\ \E i, j \in 1..Len(conversation) :
          /\ i < j
          /\ conversation[i] = Entry("user", "namak kitna", 1)
          /\ conversation[j] = Entry("ai", "Step complete", 1)

\* ----------------------------------------------------------------------
\* C10: for a message that contains a command of the table as a substring,
\* processUserMessage issues no AI request and no answer to it (the AI's
\* or the fallback) is ever appended to the conversation.
C10_CommandsHandledLocally ==
    \A i \in 1..Len(conversation) :
        LET e == conversation[i]
        IN (/\ e.role = "user"
            /\ \E k \in 1..Len(Commands) :
                  Includes(Chars(e.text), Chars(Commands[k])))
           => /\ e.req \notin orch.requested
              /\ \A r \in orch.inflight : r.id # e.req
              /\ \A j \in 1..Len(conversation) :
                    ~(conversation[j].role = "ai" /\ conversation[j].req = e.req)

\* "already done" holds the command "ready" inside a longer message: it was
\* handled locally (narrated, confirmation cleared) and nothing was requested
C10_Witness ==
    /\ conversation = <<Entry("user", "already done", 1)>>
    /\ orch.requested = {}
    /\ speech.handed = 1
    /\ ~app.waitingForConfirmation


\* ----------------------------------------------------------------------
\* C11 as stated: the message 'ready' received while waitingForConfirmation
\* is true clears the flag, hands the text of the current step to the speech
\* facade, leaves the step cursor alone and issues no AI request.
C11_ReadyClearsAndNarrates ==
    [][(/\ app.waitingForConfirmation
        /\ orch'.msgs = orch.msgs + 1
        /\ conversation' =
              Append(conversation, Entry("user", "ready", orch'.msgs)))
       => /\ ~app'.waitingForConfirmation
          /\ app'.currentStep = app.currentStep
          /\ orch'.requested = orch.requested
          /\ orch'.inflight = orch.inflight
          /\ speech'.handed = speech.handed + 1
          /\ LET u == Utterance(<<"Accha! Chaliye shuru karte hain",
                                  app.currentStep>>, speech'.handed)
             IN \/ \E i \in 1..Len(speech'.pending) : speech'.pending[i] = u
                \/ \E i \in 1..Len(speech'.utteranceQueue) :
                      speech'.utteranceQueue[i] = u]_vars

\* C11 as amended: the same, but the text is handed to the speech facade
\* only when AI speech is enabled; with AI speech disabled nothing is
\* narrated and the speech facade is left alone.
C11_ReadyClearsAndNarratesIfEnabled ==
    [][(/\ app.waitingForConfirmation
        /\ orch'.msgs = orch.msgs + 1
        /\ conversation' =
              Append(conversation, Entry("user", "ready", orch'.msgs)))
       => /\ ~app'.waitingForConfirmation
          /\ app'.currentStep = app.currentStep
          /\ orch'.requested = orch.requested
          /\ orch'.inflight = orch.inflight
          /\ ~aiSpeechEnabled => speech' = speech
          /\ aiSpeechEnabled =>
                /\ speech'.handed = speech.handed + 1
                /\ LET u == Utterance(<<"Accha! Chaliye shuru karte hain",
                                        app.currentStep>>, speech'.handed)
                   IN \/ \E i \in 1..Len(speech'.pending) :
                            speech'.pending[i] = u
                      \/ \E i \in 1..Len(speech'.utteranceQueue) :
                            speech'.utteranceQueue[i] = u]_vars

\* 'ready' was the only message, received after the recipe was installed
\* (so the session was waiting) and while the opening line was being spoken:
\* the flag is cleared and the step text waits in the queue
C11_Witness ==
    /\ app.isCooking
    /\ app.recipe.steps > 0
    /\ ~app.waitingForConfirmation
    /\ app.currentStep = 0
    /\ orch.msgs = 1
    /\ orch.requested = {}
    /\ conversation[Len(conversation)] = Entry("user", "ready", 1)
    /\ speech.utteranceQueue =
          <<Utterance(<<"Accha! Chaliye shuru karte hain", 0>>, 2)>>


\* ----------------------------------------------------------------------
\* C12: only a network failure of the fetch (a rejection or the timeout) is
\* retried: the backoff delay is entered only from a waiting fetch, never
\* after an HTTP error response or after a response body was read.
C12_OnlyNetworkFailuresRetried ==
    [][aiPhase' = "delay" => aiPhase = "fetch"]_vars

\* ----------------------------------------------------------------------
\* C13: the error of a request that failed after its attempts is decided
\* from the error of the last attempt: Timeout when it was aborted, else
\* InvalidApiKey when its message has 'API key', else RateLimited when its
\* message has '429', else that error itself.
C13_FailureKinds ==
    (aiPhase = "failed" /\ attempts > 0) =>
        IF attemptError.name = "AbortError" THEN aiError.name = "Timeout"
        ELSE IF attemptError.hasApiKey THEN aiError.name = "InvalidApiKey"
        ELSE IF attemptError.has429 THEN aiError.name = "RateLimited"
        ELSE aiError = attemptError

\* the last attempt got an HTTP error whose message has both 'API key' and
\* '429': InvalidApiKey is surfaced
C13_Witness ==
    /\ aiPhase = "failed"
    /\ attempts = maxRetries + 1
    /\ attemptError = Err("ApiError", TRUE, TRUE)
    /\ aiError.name = "InvalidApiKey"

\* ----------------------------------------------------------------------
\* C14: a request returns only the text of a body that has
\* candidates[0].content.parts[0].text, and an attempt that read a JSON body
\* without that structure does not return: it fails, and when the request
\* fails on it, with the invalid-response-format error.
C14_TextOrInvalidFormat ==
    /\ aiPhase = "returned" => lastBody = "text"
    /\ lastBody \in {"noCandidates", "noContent", "noParts", "noText"} =>
          /\ aiPhase \in {"delay", "failed"}
          /\ aiPhase = "failed" => aiError = InvalidFormatError

\* ----------------------------------------------------------------------
\* C15: while an attempt waits on the remote service, for the response or
\* for a response body, its timeout timer is armed.
C15_TimeoutCoversAttempt ==
    aiPhase \in {"fetch", "body", "errbody"} => timerArmed

\* ----------------------------------------------------------------------
\* C17: whenever extractRecipe has settled, after a response, after a failed
\* request or with an uninitialized client, it has returned a recipe object.
C17_ExtractAlwaysReturnsRecipe ==
    (aiCaller = "extract" /\ aiPhase \in {"returned", "failed"}) =>
        /\ recipeOut # NoRecipe
        /\ recipeOut.source \in {"json", "heuristic", "default"}

\* the request behind extractRecipe timed out on its last attempt, and the
\* default recipe came back
C17_Witness ==
    /\ aiCaller = "extract"
    /\ aiPhase = "failed"
    /\ aiError.name = "Timeout"
    /\ attempts = maxRetries + 1
    /\ recipeOut = GetDefaultRecipe


\* ----------------------------------------------------------------------
\* C16: when the AI request of a message fails, processUserMessage catches
\* it: AppState's cursor, flags and recipe are as before, the fallback
\* answer and a system error entry are appended, one alert is shown, and
\* while the user has events left a further message is accepted.
C16_AIFailureDegrades ==
    /\ [][orch'.failed # orch.failed =>
            /\ app' = app
            /\ orch'.alerts = orch.alerts + 1
            /\ \E id \in orch'.failed \ orch.failed :
                  conversation' = conversation \o
                      <<Entry("ai", FallbackResponse, id),
                        Entry("system", "Error: AI Error", id)>>]_vars
    /\ []((orch.failed # {} /\ orch.msgs + orch.clicks < MaxUserEvents)
             => ENABLED SubmitMessage("namak kitna", FALSE, FALSE))

\* the request of the first message failed and was answered with the
\* fallback and the alert; the second message went to the AI afterwards
C16_Witness ==
    /\ orch.failed = {1}
    /\ orch.alerts = 1
    /\ 2 \in orch.requested
    /\ 1 \notin {r.id : r \in orch.inflight}

\* ---------------------------------------------------------------- speech
\* the step is a speak(text) call; its text is speech'.call.text
SpeakCalled == speech'.call.n # speech.call.n

\* the synthesizer is playing an utterance with this text
BeingSpoken(text) ==
    /\ speech.playing
    /\ Len(speech.pending) > 0
    /\ Head(speech.pending).text = text

\* the step issues stopSpeaking: the page is hidden or AI speech is turned off
StopIssued ==
    \/ orch'.visibilityChanges # orch.visibilityChanges /\ orch'.hidden
    \/ orch'.speechToggles # orch.speechToggles /\ ~aiSpeechEnabled'

\* C18: speak(text) called while an utterance with the same text is being
\* spoken changes nothing: the utterance goes on playing, the utterance queue
\* is as before and nothing new is submitted to the synthesizer.
C18_SameTextIgnored ==
    [][(SpeakCalled /\ BeingSpoken(speech'.call.text)) =>
          /\ speech'.pending = speech.pending
          /\ speech'.playing
          /\ speech'.utteranceQueue = speech.utteranceQueue
          /\ speech'.isSpeaking = speech.isSpeaking
          /\ speech'.currentUtterance = speech.currentUtterance
          /\ speech'.cancelled = speech.cancelled]_vars

\* C18 witness: a second speak call was made, its text is the text of the
\* utterance that is playing, and the call submitted nothing (two texts were
\* handed over, one is pending).
C18_Witness ==
    /\ speech.call.n = 2
    /\ speech.handed = 2
    /\ BeingSpoken(speech.call.text)
    /\ Len(speech.pending) = 1
    /\ speech.spoken = <<1>>

\* C19 (as stated): speak(text) called while a different text is being spoken
\* cancels the playing utterance and submits the new one, which is then the
\* next utterance the synthesizer speaks; a cancelled utterance is never
\* pending again.
C19_DifferentTextInterrupts ==
    /\ [][(SpeakCalled /\ speech.playing
                       /\ ~BeingSpoken(speech'.call.text)) =>
             /\ Head(speech.pending) \in speech'.cancelled
             /\ ~speech'.playing
             /\ Len(speech'.pending) = 1
             /\ speech'.pending[1].text = speech'.call.text
             /\ speech'.pending[1].tag = speech'.handed]_vars
    /\ [](\A i \in 1..Len(speech.pending) :
               speech.pending[i] \notin speech.cancelled)

\* C20 (as stated): a stop leaves the utterance queue empty, and no text that
\* was in the queue when the stop was issued is in the queue or on its way to
\* the synthesizer afterwards.
C20_StopEmptiesQueue ==
    [][StopIssued =>
          /\ speech'.utteranceQueue = <<>>
          /\ \A i \in 1..Len(speech.utteranceQueue) :
                \A j \in 1..Len(speech'.pending) :
                    speech'.pending[j] # speech.utteranceQueue[i]]_vars

\* the step is the completion of an utterance: its end or its error event
UtteranceCompletes == SynthEnd \/ SynthError

\* C21 (as stated): when an utterance completes and the utterance queue is
\* not empty, exactly the head of the queue is removed and submitted to the
\* synthesizer; when the queue is empty the facade is idle afterwards.
C21_CompletionDrainsOne ==
    [][UtteranceCompletes =>
          IF Len(speech.utteranceQueue) > 0
          THEN /\ speech'.utteranceQueue = Tail(speech.utteranceQueue)
               /\ Len(speech'.pending) > 0
               /\ speech'.pending[Len(speech'.pending)]
                     = Head(speech.utteranceQueue)
          ELSE /\ ~speech'.isSpeaking
               /\ speech'.currentUtterance = NoUtterance
               /\ speech'.utteranceQueue = <<>>]_vars

\* C22 (as stated): queueSpeech(text) called while an utterance is submitted
\* and not finished appends the text to the utterance queue and leaves the
\* synthesizer alone; called while nothing is pending or playing it submits
\* the text at once.
C22_QueueSpeechAppendsWhileBusy ==
    [][\A text \in SpeechTexts :
          CallQueueSpeech(text) =>
             LET u == Utterance(text, speech'.handed)
             IN IF Len(speech.pending) > 0
                THEN /\ speech'.utteranceQueue
                           = Append(speech.utteranceQueue, u)
                     /\ speech'.pending = speech.pending
                     /\ speech'.playing = speech.playing
                ELSE /\ speech'.utteranceQueue = speech.utteranceQueue
                     /\ speech'.pending = <<u>>]_vars

\* the step is a startListening call; its return value is
\* speech'.listenCall.result
StartListeningCalled == speech'.listenCall.n # speech.listenCall.n

\* C23 (as stated): startListening called while listening starts no second
\* recognition, stops the current one and returns false; called while idle
\* (not listening) it starts a recognition and returns true.
C23_StartListeningToggles ==
    [][StartListeningCalled =>
          IF speech.isListening
          THEN /\ speech'.sessions = speech.sessions
               /\ speech'.recognition = "stopping"
               /\ ~speech'.listenCall.result
          ELSE /\ speech'.sessions = speech.sessions + 1
               /\ speech'.recognition = "starting"
               /\ speech'.listenCall.result]_vars

\* C27 (as stated): the speech facade is never listening and speaking at
\* once: isListening and isSpeaking are not both true.
C27_ListeningXorSpeaking == ~(speech.isListening /\ speech.isSpeaking)

\* ---------------------------------------------------------------- camera
\* C24 (as stated): at most one media stream is acquired and not stopped.
C24_OneLiveStream == Cardinality(camera.live) <= 1

\* the step is a captureFrame call; what it returned is camera'.result
CaptureFrameCalled == camera'.calls # camera.calls

\* C30: a captureFrame call that returns no frame leaves lastCaptureTime and
\* captureCount as they were, and a call that returns a frame sets
\* lastCaptureTime to the time of the call: the cooldown is measured from the
\* last successful capture.
C30_RejectedCaptureLeavesStamp ==
    [][CaptureFrameCalled =>
          IF camera'.result = "null"
          THEN /\ camera'.lastCaptureTime = camera.lastCaptureTime
               /\ camera'.captureCount = camera.captureCount
          ELSE /\ camera'.lastCaptureTime = now
               /\ camera'.captureCount = camera.captureCount + 1]_vars

\* C30 witness: after one successful capture a second call was rejected by
\* the cooldown (the camera is active and the video ready): the stamp is
\* still the first capture's, earlier than the time of the rejected call.
C30_Witness ==
    /\ camera.calls = 2
    /\ camera.captureCount = 1
    /\ camera.result = "null"
    /\ camera.isActive
    /\ camera.videoReady
    /\ TooSoon(now, camera.lastCaptureTime)
    /\ camera.lastCaptureTime < now

\* --------------------------------------------------------------- session
\* the step is a message for which processUserMessage called captureFrame
\* and got no frame (a second call is made only when the first gave none)
CaptureGaveNoFrame ==
    /\ orch'.msgs # orch.msgs
    /\ camera'.calls # camera.calls
    /\ camera'.result = "null"

\* C25: when processUserMessage attempts a capture and captureFrame returns
\* no frame, the AI request of the message is issued all the same, without
\* an image, and the AI-failure path is not taken: no fallback answer, no
\* failure recorded, no alert.
C25_NoFrameStillAsks ==
    [][CaptureGaveNoFrame =>
          /\ \E request \in orch'.inflight \ orch.inflight :
                request.id = orch'.msgs /\ ~request.image
          /\ orch'.failed = orch.failed
          /\ orch'.alerts = orch.alerts
          /\ \A i \in 1..Len(conversation') :
                i > Len(conversation) =>
                   ~(conversation'[i].role = "ai"
                        /\ conversation'[i].text = FallbackResponse)]_vars

\* C25 witness: the camera is active and the video ready, the first message
\* got a frame, the capture for the second message was rejected by the
\* cooldown, and the second message's request is in flight without an image.
C25_Witness ==
    /\ camera.isActive
    /\ camera.videoReady
    /\ camera.captureCount = 1
    /\ camera.result = "null"
    /\ TooSoon(now, camera.lastCaptureTime)
    /\ orch.msgs = 2
    /\ \E request \in orch.inflight : request.id = 2 /\ ~request.image

\* -------------------------------------------------------------- AI client
\* C26: a call of extractRecipe makes one generateResponse call: every fetch
\* made for it is either the first attempt of that call or a retry counted
\* by callGeminiAPI after a backoff delay, once it has settled nothing more
\* is fetched until the next call, and so its attempts never exceed
\* maxRetries + 1.
C26_ExtractIssuesOneRequest ==
    /\ [](aiCaller = "extract" => attempts <= maxRetries + 1)
    /\ [][(aiCaller' = "extract" /\ aiPhase' = "fetch") =>
             \/ requestsIssued' = requestsIssued + 1 /\ attempts' = 1
             \/ /\ aiCaller = "extract"
                /\ aiPhase = "delay"
                /\ requestsIssued' = requestsIssued
                /\ attempts' = attempts + 1]_vars
    /\ [][(aiCaller = "extract" /\ aiPhase \in {"returned", "failed"}) =>
             requestsIssued' = requestsIssued + 1]_vars

\* C26 witness: one extractRecipe call under the default of 3 retries, all
\* of whose attempts failed: four fetches, one request, the default recipe.
C26_Witness ==
    /\ aiCaller = "extract"
    /\ aiPhase = "failed"
    /\ requestsIssued = 1
    /\ maxRetries = 3
    /\ attempts = 4
    /\ recipeOut = GetDefaultRecipe

\* the step is an attempt succeeding: the body was read and callGeminiAPI
\* returns its text
AttemptSucceeds == aiPhase = "body" /\ lastBody' \in {"text", "noText"}

\* C28: the attempt that succeeds ends the request: the text is returned to
\* the caller at that step, with no delay added, and once returned no
\* further attempt or delay follows until the next request; an attempt is
\* added to a request only after a backoff delay, and a delay only by a step
\* that is not a success.
C28_SuccessEndsRequest ==
    /\ [][AttemptSucceeds =>
             /\ aiPhase' = "returned"
             /\ attempts' = attempts
             /\ delays' = delays]_vars
    /\ [][aiPhase = "returned" =>
             \/ requestsIssued' = requestsIssued + 1
             \/ /\ aiPhase' = "returned"
                /\ attempts' = attempts
                /\ delays' = delays
                /\ aiText' = aiText]_vars
    /\ [][(attempts' # attempts /\ requestsIssued' = requestsIssued) =>
             aiPhase = "delay" /\ attempts' = attempts + 1]_vars
    /\ [][(Len(delays') > Len(delays)) => ~AttemptSucceeds]_vars

\* C28 witness: the first attempt failed, the second succeeded after one
\* delay, and the request returned its text.
C28_Witness ==
    /\ aiPhase = "returned"
    /\ attempts = 2
    /\ Len(delays) = 1
    /\ lastBody = "text"
    /\ aiText # <<>>
    /\ maxRetries = 3

\* the step is processUserMessage going on after the AI's answer: a request
\* is no longer awaited and did not fail
AIAnswered ==
    /\ orch'.inflight # orch.inflight
    /\ orch'.inflight \subseteq orch.inflight
    /\ orch'.failed = orch.failed

\* C29: an AI answer that arrives while waitingForConfirmation is false does
\* not mark the step complete: completeCurrentStep is not called and the
\* cursor stays, whatever keywords the answer and the message contain.
C29_NoCompletionUnlessWaiting ==
    [][(AIAnswered /\ ~app.waitingForConfirmation) =>
          /\ orch'.completions = orch.completions
          /\ app'.currentStep = app.currentStep
          /\ ~app'.waitingForConfirmation]_vars

\* C29 witness: cooking has started, the session is not waiting for
\* confirmation, the AI's answer "Step complete" (a completion keyword) has
\* arrived as the last entry, and no step was ever marked complete.
C29_Witness ==
    /\ app.isCooking
    /\ ~app.waitingForConfirmation
    /\ orch.completions = 0
    /\ Len(conversation) > 0
    /\ conversation[Len(conversation)].role = "ai"
    /\ conversation[Len(conversation)].text = "Step complete"

\* the place in the table of the first command, in table order, that the
\* lower-cased message holds as a substring
FirstInTable(message) ==
    LET lowerMessage == ToLowerCase(Chars(message))
        found == {k \in 1..Len(Commands) :
                     Includes(lowerMessage, Chars(Commands[k]))}
    IN CHOOSE k \in found : \A j \in found : k <= j

\* C31: a message that holds commands of the table has the effect of one
\* handler, that of the first such command in table order: the state after
\* the message is the state that handler alone leaves, so a command later in
\* the table has no effect.
C31_FirstCommandInTableOrder ==
    [][\A message \in CommandMessages :
          (/\ orch'.msgs = orch.msgs + 1
           /\ Len(conversation') > Len(conversation)
           /\ conversation'[Len(conversation) + 1]
                 = Entry("user", message, orch'.msgs))
          => \E confirmed \in BOOLEAN :
                LET w == AddToConversation(
                             [World EXCEPT !.orch.msgs = @ + 1],
                             "user", message, orch.msgs + 1)
                    after == RunCommand(w, Commands[FirstInTable(message)],
                                        confirmed)
                IN /\ app' = after.app
                   /\ orch' = after.orch
                   /\ speech' = after.speech
                   /\ camera' = after.camera
                   /\ conversation' = after.conversation
                   /\ aiSpeechEnabled' = after.enabled]_vars

\* C31 witness: cooking with a recipe of more than one step, the message
\* "stop next" was handled by the handler of 'next' (earlier in the table
\* than 'stop'): the cursor moved on and the session was not reset.
C31_Witness ==
    /\ app.isCooking
    /\ app.currentStep = 1
    /\ app.recipe # NoRecipe
    /\ conversation[Len(conversation)] = Entry("user", "stop next", 1)

\* C34: generateResponse on a client that is not initialized or has no API
\* key fails at once with the not-initialized error: no attempt is made, no
\* delay is waited, no timer is armed and the status stays as it was; such a
\* client never fetches and never shows 'Thinking...'.
C34_UninitializedFailsAtOnce ==
    /\ [][(requestsIssued' = requestsIssued + 1
               /\ (~isInitialized \/ ~apiKey)) =>
             /\ aiPhase' = "failed"
             /\ aiError' = NotInitializedError
             /\ attempts' = 0
             /\ delays' = <<>>
             /\ ~timerArmed'
             /\ aiStatus' = aiStatus]_vars
    /\ []((~isInitialized \/ ~apiKey) =>
             /\ aiPhase \in {"idle", "failed"}
             /\ attempts = 0
             /\ aiStatus = "No API Key")

\* C34 witness: a client constructed without an API key was asked for a
\* response and has failed with the not-initialized error.
C34_Witness ==
    /\ ~apiKey
    /\ aiCaller = "generate"
    /\ requestsIssued = 1
    /\ aiPhase = "failed"
    /\ aiError = NotInitializedError
    /\ aiStatus = "No API Key"

\* C36 (as stated): the recipe extractRecipe returns has at least one step
\* and a list of ingredients.
C36_ExtractedRecipeHasSteps ==
    (aiCaller = "extract" /\ aiPhase \in {"returned", "failed"}) =>
        /\ recipeOut # NoRecipe
        /\ recipeOut.steps > 0

\* C37 (as stated): a click on the microphone button leaves the AI-speech
\* preference, the speaking state and the utterance queue as they were.
C37_MicrophoneLeavesSpeech ==
    [][orch'.micToggles # orch.micToggles =>
          /\ aiSpeechEnabled' = aiSpeechEnabled
          /\ speech'.isSpeaking = speech.isSpeaking
          /\ speech'.utteranceQueue = speech.utteranceQueue]_vars

\* C38 (as stated): once stopListening was called for a recognition, that
\* recognition is not left running: it is never listening afterwards.
C38_NeverListeningAfterStop ==
    (speech.sessions > 0 /\ speech.stopAsked = speech.sessions)
        => speech.recognition # "listening"

\* C39 (as stated): a startCamera that was waiting when stopCamera ran does
\* not leave the camera on when it finishes: the camera is not active on
\* that call's stream.
C39_StopDuringStartLeavesOff ==
    \A i \in 1..Len(camera.starting) :
        (i \in camera.stopDuring /\ camera.starting[i] = "done")
            => ~(camera.isActive /\ camera.stream = i)

\* C40 (as stated, for every number of captures): successful captures are
\* at least the cooldown apart, so that any n + 1 of them span at least
\* n * 6000 ms; for n = maxCapturesPerMinute = 10 these are the 60 seconds
\* of the claim.
C40_CapturesSpreadOut ==
    \A i, j \in 1..Len(camera.captureTimes) :
        i < j => camera.captureTimes[j] - camera.captureTimes[i]
                    >= (j - i) * CooldownMs

\* C33: when a startCooking run completes, a recipe is installed and
\* waitingForConfirmation is true, for the recipe of a failed request (the
\* default one) as for an extracted one.
C33_CompletedStartAwaitsConfirmation ==
    [][(\E k \in 1..Len(orch.cookStarts) :
            /\ orch.cookStarts[k].phase = "extract"
            /\ orch'.cookStarts[k].phase = "done") =>
          /\ app'.recipe.source # "none"
          /\ app'.recipe \in ExtractedRecipes
          /\ app'.waitingForConfirmation]_vars

\* C33 witness: a run completed after a failed request: the default recipe
\* is installed and the confirmation is awaited.
C33_Witness ==
    /\ Len(orch.cookStarts) = 1
    /\ orch.cookStarts[1].phase = "done"
    /\ app.recipe = GetDefaultRecipe
    /\ app.isCooking
    /\ app.waitingForConfirmation

\* C35 (as stated): a startCooking run that completes on a session that is
\* not cooking (it was reset while the extraction was in flight) installs no
\* recipe and does not set waitingForConfirmation.
C35_LateRecipeStaysDiscarded ==
    [][(/\ ~app.isCooking
        /\ \E k \in 1..Len(orch.cookStarts) :
              /\ orch.cookStarts[k].phase = "extract"
              /\ orch'.cookStarts[k].phase = "done") =>
          /\ app'.recipe = app.recipe
          /\ app'.waitingForConfirmation = app.waitingForConfirmation]_vars

\* C32 (as stated): at most one startCooking run is in progress, so at most
\* one recipe extraction is in flight.
C32_OneStartCookingRun ==
    Cardinality({k \in 1..Len(orch.cookStarts) :
                    orch.cookStarts[k].phase # "done"}) <= 1

====
